---- MODULE Spec2Model ----
(***************************************************************************)
(* Model of the OSKAR sweep driver (src/main.py).                          *)
(*                                                                         *)
(* The three process runners run_oskar_sim_beam, run_oskar_sim_interf and  *)
(* run_calibrate are one step machine (they are three copies of the same   *)
(* code; run_calibrate has no INI line in its preamble and no existence    *)
(* check).  The log file run.log of the current run directory is the       *)
(* sequence `log`; what has been written to the open handle log_f but not  *)
(* yet flushed is `buf` (Python's open(path, "a") is block buffered, a few *)
(* short lines stay in the buffer until the with-block closes the handle). *)
(* Opening, flushing and appending may fail (OSError); the number of such  *)
(* injected failures is bounded by MaxFaults.                              *)
(***************************************************************************)
EXTENDS Integers, Sequences, FiniteSets, TLC

\* ---------------------------------------------------------------- bounds
MaxFaults == 2
MaxInvocations == 2
MaxAxis == 2
MaxCombinations == 4

\* ------------------------------------------------------------- vocabulary
Runners == {"beam", "interf", "calib"}
Sims == {"beam", "interf"}
\* outcomes of subprocess.run: exit status zero / non-zero, FileNotFoundError
\* (executable or cwd not found), any other exception (e.g. PermissionError)
LaunchOutcomes == {"exit0", "exitN", "FileNotFoundError", "OSError"}

VARIABLES
    log,        \* content of <cwd>/run.log: sequence of <<invocation, tag>>
    buf,        \* lines written to the open handle log_f, not yet in the file
    pc,         \* position of the runner
    kind,       \* which runner is running
    is_dry_run, \* argument is_dry_run
    ini_exists, \* ini_file_path.exists()
    cfg_none,   \* run_calibrate only: hyperdrive_cfg is None
    exc,        \* exception propagating out of the with-block
    retval,     \* value of the return statement reached ("none" before)
    result,     \* what the caller received: "none", "True", "False", "raised"
    launched,   \* outcome of subprocess.run in this invocation ("none" if not called)
    launches,   \* number of subprocess.run calls since Init
    ops,        \* log operations of this invocation, in order
    console,    \* messages printed in this invocation
    inv,        \* number of the current invocation
    faults,     \* injected I/O failures so far
    logAtLaunch, \* content of run.log when subprocess.run was called
    \* ---- main(): the settings document and the position in the sweep
    mpc,              \* position of main ("off": main is not running)
    run_beam_sim,     \* run_settings.get("run_beam_sim")
    run_interf_sim,   \* run_settings.get("run_interf_sim")
    run_hyperdrive,   \* run_settings.get("run_hyperdrive")
    dry_run,          \* run_settings.get("dry_run", False)
    hyperdrive_cfg,   \* master_config.get("hyperdrive_settings"): "dict" or "None"
    nTel, nSky, nPc,  \* lengths of the three sweep axes
    telescope_configs,          \* the "name" of each telescope record
    sky_model_configs,          \* the "filename" of each sky-model record
    phase_centre_configs,       \* the "id" of each phase-centre record
    images_folder_pattern,      \* output_cfg.get("images_folder_pattern", ...)
    include_telescope_errors,   \* run_settings.get("include_telescope_errors", False)
    bad_pc,           \* index of a phase-centre record without ra_deg (0: none)
    bad_sky,          \* index of a sky-model record without filename (0: none)
    tel, sky, pcIdx,  \* the loop indices
    run_counter,      \* run_counter
    combos,           \* the combinations whose iteration has begun: sequence of <<tel, sky, pc>>
    folders,          \* current_run_images_folder_name of each of them
    attempted,        \* the stages entered so far: sequence of <<tel, sky, pc, stage>>
    beamFailed,       \* some call of run_oskar_sim_beam returned False
    \* ---- the flattener and the file writer
    wpc,              \* "off", "input" (a tree is at hand), "done" (the writer is over)
    ini_data_dict,    \* the tree handed to write_ini_file_with_configparser
    flat_dict,        \* what the last call of the flattener returned
    flat_arg,         \* the section that call was given (0: no call yet)
    ini_file,         \* the file at output_path: sequence of sections
    ini_written,      \* the file at output_path has been written
    ini_warnings,     \* the sections skipped with a warning
    ini_exc,          \* the exception that left the writer ("none": it returned)
    \* ---- the compilers
    cpc,                  \* "off", or "ready": the arguments below are at hand
    heap,                 \* the dicts: heap[id] is the items of the dict id
    oskar_ini_defaults,   \* the reference to the defaults
    defaults_at_load,     \* the value of the defaults when they were loaded
    current_pc_config,    \* the phase-centre record
    global_output_config, \* output_cfg
    project_root_path,    \* Path(".").resolve(): the working directory
    oskar_input_directory,            \* current_tel_config["oskar_input_directory"]
    current_run_specific_output_dir,  \* the run directory
    trees,                \* the trees returned: kind, identity, value as held
    compile_exc,          \* the exception of the last compiler call
    steps,                \* compiler calls and mutations so far
    \* ---- one combination of main: the paths and names it hands on
    lpc,                    \* "off", or the position in the combination
    base_output_dir,        \* Path(output_cfg.get("base_output_directory", ...))
    executables_cfg,        \* master_config.get("executables", {})
    current_run_output_dir, \* base_output_dir / current_run_images_folder_name
    stage,                  \* the stage main is in ("none" before the first)
    ini_file_path,          \* the path main gives the writer and the runner
    written_file,           \* the file the writer wrote, as an absolute path
    executable_path,        \* argument executable_path of the runner
    cwd_path,               \* argument cwd_path of the runner
    command,                \* the argument list of subprocess.run
    checked_file,           \* the file ini_file_path.exists() looked at
    opened_file             \* the file the external program opens for command[1]

runnerVars == <<log, buf, pc, kind, is_dry_run, ini_exists, cfg_none, exc, retval,
                result, launched, launches, ops, console, inv, faults, logAtLaunch>>
settingsVars == <<run_beam_sim, run_interf_sim, run_hyperdrive, dry_run, hyperdrive_cfg,
                  nTel, nSky, nPc, bad_pc, bad_sky, telescope_configs, sky_model_configs,
                  phase_centre_configs, images_folder_pattern, include_telescope_errors>>
sweepVars == <<mpc, settingsVars, tel, sky, pcIdx, run_counter, combos, folders, attempted,
               beamFailed>>
writerVars == <<wpc, ini_data_dict, flat_dict, flat_arg, ini_file, ini_written, ini_warnings,
                ini_exc>>
compilerVars == <<cpc, heap, oskar_ini_defaults, defaults_at_load, current_pc_config,
                  global_output_config, project_root_path, oskar_input_directory,
                  current_run_specific_output_dir, trees, compile_exc, steps>>
launchVars == <<lpc, base_output_dir, executables_cfg, current_run_output_dir, stage,
                ini_file_path, written_file, executable_path, cwd_path, command,
                checked_file, opened_file>>
dataVars == <<writerVars, compilerVars, launchVars>>
mainVars == <<sweepVars, dataVars>>
vars == <<runnerVars, mainVars>>

\* ------------------------------------------------------------ log entries
Entry(tag) == <<inv, tag>>
Entries(tags) == [i \in 1..Len(tags) |-> Entry(tags[i])]

\* lines 48-58 (sims), 316-321 (run_calibrate: no INI line)
Preamble(k) ==
    IF k = "calib" THEN <<"time", "cwd", "cmd">>
    ELSE <<"time", "cwd", "ini", "cmd">>

IsPrefix(s, t) == Len(s) <= Len(t) /\ SubSeq(t, 1, Len(s)) = s

Op(name, ok) == [op |-> name, ok |-> ok]

Range(s) == {s[i] : i \in DOMAIN s}

\* Mutant: the log opened in mode "w", which truncates the file.
WriteMode(content) == <<>>

\* Line 47: mode "a" keeps what the file holds; every write goes to its end.
AppendMode(content) == content

\* Mutant: the existence check left out.
InputMissing_Unchecked == FALSE

\* Lines 60-62 / 204: "if not ini_file_path.exists()"; run_calibrate has no
\* such check.
InputMissing == kind \in Sims /\ ~ini_exists

\* Mutant: the exit status ignored.
ReturnFor_IgnoringStatus(o) == "True"

\* Lines 95-120: the value returned after subprocess.run came back.
ReturnFor(o) == IF o = "exit0" THEN "True" ELSE "False"

\* ------------------------------------------------------------ the names
\* A string is a sequence of atoms: a run of letters and digits, or one of
\* the characters ".", "_", "-"; a placeholder of a template is one atom.
Digits == <<"1", "2", "3", "4", "5", "6", "7", "8", "9">>

Has(s, a) == \E i \in DOMAIN s : s[i] = a

\* position of the last occurrence of atom a in s
LastIndex(s, a) == CHOOSE i \in DOMAIN s : s[i] = a /\ \A j \in DOMAIN s : (j > i) => s[j] # a

\* Lines 781-787: rsplit(".", 1)[0] if the name has a dot, else the name.
get_sky_model_name_no_ext(sky_model_filename_basename) ==
    IF Has(sky_model_filename_basename, ".")
    THEN SubSeq(sky_model_filename_basename, 1,
                LastIndex(sky_model_filename_basename, ".") - 1)
    ELSE sky_model_filename_basename

\* Lines 817-820: the template used when output_config names none.
DefaultFolderPattern ==
    <<"images", "_", "{sky_name_no_ext}", "_", "{tel_name}", "{error_suffix}", "_", "{pc_id}">>

\* str.format: every placeholder is replaced by the value of its field.
RECURSIVE Format(_, _)
Format(pattern, fields) ==
    IF pattern = <<>> THEN <<>>
    ELSE (IF Head(pattern) \in DOMAIN fields THEN fields[Head(pattern)] ELSE <<Head(pattern)>>)
            \o Format(Tail(pattern), fields)

\* ----------------------------------------------------------- the values
\* A value of a settings tree: None, a bool, an int, a str or a dict.  A dict
\* is the sequence of its items in insertion order, the keys being strings.
NoneV == [t |-> "none", b |-> FALSE, n |-> 0, s |-> <<>>, d |-> <<>>]
BoolV(x) == [t |-> "bool", b |-> x, n |-> 0, s |-> <<>>, d |-> <<>>]
IntV(x) == [t |-> "int", b |-> FALSE, n |-> x, s |-> <<>>, d |-> <<>>]
StrV(x) == [t |-> "str", b |-> FALSE, n |-> 0, s |-> x, d |-> <<>>]
DictV(items) == [t |-> "dict", b |-> FALSE, n |-> 0, s |-> <<>>, d |-> items]

Item(k, v) == [key |-> k, value |-> v]

DecimalDigits == <<"0", "1", "2", "3", "4", "5", "6", "7", "8", "9">>

\* str(n) of an int: its decimal digits
RECURSIVE Decimal(_)
Decimal(x) ==
    IF x < 0 THEN <<"-">> \o Decimal(0 - x)
    ELSE IF x < 10 THEN <<DecimalDigits[x + 1]>>
    ELSE Decimal(x \div 10) \o <<DecimalDigits[(x % 10) + 1]>>

\* str(value) of a scalar
PyStr(value) ==
    CASE value.t = "none" -> <<"N", "o", "n", "e">>
      [] value.t = "bool" -> IF value.b THEN <<"T", "r", "u", "e">>
                             ELSE <<"F", "a", "l", "s", "e">>
      [] value.t = "int" -> Decimal(value.n)
      [] value.t = "str" -> value.s

\* str.lower, on the letters that occur
LowerChar(c) ==
    CASE c = "T" -> "t" [] c = "F" -> "f" [] c = "N" -> "n"
      [] c = "K" -> "k" [] c = "B" -> "b" [] OTHER -> c

Lower(str) == [i \in DOMAIN str |-> LowerChar(str[i])]

\* ------------------------------------------------------------ the flattener
\* d[k] = v on a dict: an existing key keeps its place
SetItem(d, k, v) ==
    IF \E i \in DOMAIN d : d[i].key = k
    THEN [i \in DOMAIN d |-> IF d[i].key = k THEN Item(k, v) ELSE d[i]]
    ELSE Append(d, Item(k, v))

\* d.update(other)
RECURSIVE Update(_, _)
Update(d, other) ==
    IF other = <<>> THEN d
    ELSE Update(SetItem(d, Head(other).key, Head(other).value), Tail(other))

\* Mutant: the test of line 412 left out.
IsSkipped_Never(value) == FALSE

\* Lines 412-413: "if value is None: continue".
IsSkipped(value) == value.t = "none"

\* Mutant: a bool serialized like every other scalar.
SerializeBool_AsStr(value) == PyStr(value)

\* Line 421: str(value).lower().
SerializeBool(value) == Lower(PyStr(value))

\* Lines 410-425: the loop over settings_dict.items(), flat_dict being what
\* the items before have produced.
RECURSIVE FlattenItems(_, _, _)
FlattenItems(items, prefix, flat) ==
    IF items = <<>> THEN flat
    ELSE LET key == Head(items).key
             value == Head(items).value
             oskar_key == prefix \o key
         IN  FlattenItems(Tail(items), prefix,
                 IF IsSkipped(value) THEN flat
                 ELSE IF value.t = "dict"
                 THEN Update(flat, FlattenItems(value.d, oskar_key \o <<"/">>, <<>>))
                 ELSE IF value.t = "bool"
                 THEN SetItem(flat, oskar_key, SerializeBool(value))
                 ELSE SetItem(flat, oskar_key, PyStr(value)))

\* Lines 404-425.
flatten_settings_for_configparser(settings_dict, prefix) ==
    FlattenItems(settings_dict, prefix, <<>>)

\* ------------------------------------------------------------ the writer
\* Mutant: the option transform configparser starts with (str.lower).
optionxform_default(option) == Lower(option)

\* Line 435: config.optionxform = str.
optionxform(option) == option

\* ConfigParser.set refuses a value with a "%" that starts no interpolation.
InvalidInterpolation(flat) == \E i \in DOMAIN flat : Has(flat[i].value, "%")

\* read_dict refuses two options that the option transform makes equal.
DuplicateOption(flat) ==
    \E i, j \in DOMAIN flat : i # j /\ optionxform(flat[i].key) = optionxform(flat[j].key)

\* Line 450: config[section_name] = flat.  The outcome is the exception
\* raised ("none": no exception) and the options the section then holds.
SetSection(flat) ==
    IF DuplicateOption(flat) THEN [exc |-> "DuplicateOptionError", options |-> <<>>]
    ELSE IF InvalidInterpolation(flat) THEN [exc |-> "ValueError", options |-> <<>>]
    ELSE [exc |-> "none",
          options |-> [i \in DOMAIN flat |-> Item(optionxform(flat[i].key), flat[i].value)]]

\* Mutant: a top-level value that is no dict ends the write with an error.
OnNonMapping_Raises(cfg, section_name) == [cfg EXCEPT !.exc = "TypeError"]

\* Lines 438-442: the warning is printed and the loop goes on.
OnNonMapping(cfg, section_name) == [cfg EXCEPT !.warnings = Append(@, section_name)]

\* Lines 437-450: the loop over ini_data_dict.items(); cfg is the state of
\* the parser, the warnings printed and the exception raised so far.
RECURSIVE BuildConfig(_, _)
BuildConfig(items, cfg) ==
    IF items = <<>> \/ cfg.exc # "none" THEN cfg
    ELSE LET section_name == Head(items).key
             settings_dict == Head(items).value
         IN  IF settings_dict.t # "dict"
             THEN BuildConfig(Tail(items), OnNonMapping(cfg, section_name))
             ELSE LET r == SetSection(flatten_settings_for_configparser(settings_dict.d, <<>>))
                  IN  BuildConfig(Tail(items),
                          IF r.exc # "none" THEN [cfg EXCEPT !.exc = r.exc]
                          ELSE [cfg EXCEPT !.sections =
                                   Append(@, [section |-> section_name, options |-> r.options])])

WriterIdle ==
    /\ wpc = "off"
    /\ ini_data_dict = <<>>
    /\ flat_dict = <<>>
    /\ flat_arg = 0
    /\ ini_file = <<>>
    /\ ini_written = FALSE
    /\ ini_warnings = <<>>
    /\ ini_exc = "none"

\* -------------------------------------------------------------- the heap
\* Python dicts are objects: heap[id] is the items of the dict with identity
\* id, and a dict held as a value is a reference to its identity.  Temp is
\* the literal {} given as a default to .get(); Missing is "no such key".
Ref(id) == [t |-> "ref", b |-> FALSE, n |-> id, s |-> <<>>, d |-> <<>>]
Temp == [t |-> "temp", b |-> FALSE, n |-> 0, s |-> <<>>, d |-> <<>>]
Missing == [t |-> "missing", b |-> FALSE, n |-> 0, s |-> <<>>, d |-> <<>>]

HasKey(items, name) == \E i \in DOMAIN items : items[i].key = <<name>>

Lookup(items, name) ==
    IF HasKey(items, name)
    THEN items[CHOOSE i \in DOMAIN items : items[i].key = <<name>>].value
    ELSE Missing

\* target[name] = v
DictSet(h, id, name, v) == [h EXCEPT ![id] = SetItem(h[id], <<name>>, v)]

\* the value a reference stands for, nested dicts written out
RECURSIVE DeepValue(_, _)
DeepValue(h, v) ==
    IF v.t = "ref"
    THEN DictV([i \in DOMAIN h[v.n] |-> Item(h[v.n][i].key, DeepValue(h, h[v.n][i].value))])
    ELSE v

\* the places of the dicts of a written-out value, each place the indices
\* of the items that lead to it, the value itself first
RECURSIVE DictPlaces(_, _)
RECURSIVE DictPlacesFrom(_, _, _)
DictPlacesFrom(v, at, i) ==
    IF i > Len(v.d) THEN <<>>
    ELSE DictPlaces(v.d[i].value, Append(at, i)) \o DictPlacesFrom(v, at, i + 1)

DictPlaces(v, at) == IF v.t = "dict" THEN <<at>> \o DictPlacesFrom(v, at, 1) ELSE <<>>

RECURSIVE ValueAt(_, _)
ValueAt(v, place) ==
    IF place = <<>> THEN v ELSE ValueAt(v.d[Head(place)].value, Tail(place))

PlaceIndex(places, place) == CHOOSE k \in DOMAIN places : places[k] = place

\* fresh dicts for a written-out value: the heap with them and the reference
ToHeap(h, v) ==
    IF v.t = "dict"
    THEN LET places == DictPlaces(v, <<>>)
             fresh == [k \in DOMAIN places |->
                         LET node == ValueAt(v, places[k])
                         IN  [i \in DOMAIN node.d |->
                                Item(node.d[i].key,
                                     IF node.d[i].value.t = "dict"
                                     THEN Ref(Len(h) + PlaceIndex(places, Append(places[k], i)))
                                     ELSE node.d[i].value)]]
         IN  [h |-> h \o fresh, v |-> Ref(Len(h) + 1)]
    ELSE [h |-> h, v |-> v]

\* copy.deepcopy(v): every dict reachable from v is built anew.
deepcopy(h, v) == ToHeap(h, DeepValue(h, v))

\* the identities of the dicts reachable from v
RECURSIVE Reachable(_, _)
Reachable(h, v) ==
    IF v.t = "ref"
    THEN {v.n} \cup UNION {Reachable(h, h[v.n][i].value) : i \in DOMAIN h[v.n]}
    ELSE {}

\* Mutant: v[n1][n2] ... [nk], which raises KeyError at a missing key.
RECURSIVE GetChain_Indexing(_, _, _, _)
GetChain_Indexing(h, v, path, dflt) ==
    IF path = <<>> THEN [exc |-> "none", v |-> v]
    ELSE IF v.t # "ref" THEN [exc |-> "TypeError", v |-> Missing]
    ELSE IF Lookup(h[v.n], Head(path)) = Missing THEN [exc |-> "KeyError", v |-> Missing]
    ELSE GetChain_Indexing(h, Lookup(h[v.n], Head(path)), Tail(path), dflt)

\* v.get(n1, {}).get(n2, {}) ... .get(nk, dflt)
RECURSIVE GetChain(_, _, _, _)
GetChain(h, v, path, dflt) ==
    IF path = <<>> THEN [exc |-> "none", v |-> v]
    ELSE LET d == IF Len(path) = 1 THEN dflt ELSE Temp
         IN  IF v.t = "temp" THEN GetChain(h, d, Tail(path), dflt)
             ELSE IF v.t # "ref" THEN [exc |-> "AttributeError", v |-> Missing]
             ELSE LET found == Lookup(h[v.n], Head(path))
                  IN  GetChain(h, IF found = Missing THEN d ELSE found, Tail(path), dflt)

\* root.setdefault(n1, {}).setdefault(n2, {}) ... : the heap, the identity of
\* the dict reached (0 when what is reached is no dict) and the exception
RECURSIVE SetDefaultChain(_, _, _)
SetDefaultChain(h, id, path) ==
    IF path = <<>> THEN [h |-> h, id |-> id, exc |-> "none"]
    ELSE LET found == Lookup(h[id], Head(path))
         IN  IF found = Missing
             THEN SetDefaultChain(DictSet(Append(h, <<>>), id, Head(path), Ref(Len(h) + 1)),
                                  Len(h) + 1, Tail(path))
             ELSE IF found.t = "ref" THEN SetDefaultChain(h, found.n, Tail(path))
             ELSE IF Tail(path) = <<>> THEN [h |-> h, id |-> 0, exc |-> "none"]
             ELSE [h |-> h, id |-> 0, exc |-> "AttributeError"]

\* ------------------------------------------------------------- the paths
\* A path is absolute or not and has a sequence of segments; pathlib drops
\* "." segments when a path is built and keeps ".." segments.
Path(abs, segs) == [abs |-> abs, segs |-> SelectSeq(segs, LAMBDA x : x # ".")]

\* pathlib's p / q
PathJoin(p, q) == IF q.abs THEN q ELSE [abs |-> p.abs, segs |-> p.segs \o q.segs]

\* The file system has one symbolic link: /w/lnk points to /data.
SymlinkAt == <<"w", "lnk">>
SymlinkTarget == <<"data">>

ButLast(segs) == SubSeq(segs, 1, Len(segs) - 1)

\* Path.resolve() of an absolute path: the segments are walked from the
\* root, a symbolic link is followed when it is reached, ".." goes to the
\* parent of the directory reached.
RECURSIVE Walk(_, _)
Walk(done, todo) ==
    IF todo = <<>> THEN done
    ELSE IF Head(todo) = ".." THEN Walk(IF done = <<>> THEN <<>> ELSE ButLast(done), Tail(todo))
    ELSE LET reached == Append(done, Head(todo))
         IN  Walk(IF reached = SymlinkAt THEN SymlinkTarget ELSE reached, Tail(todo))

resolve(p) == [abs |-> TRUE, segs |-> Walk(<<>>, p.segs)]

\* os.path.normpath of an absolute path: ".." cancels the segment before it
\* in the text of the path, links are not looked at.
RECURSIVE Collapse(_, _)
Collapse(done, todo) ==
    IF todo = <<>> THEN done
    ELSE IF Head(todo) = ".." THEN Collapse(IF done = <<>> THEN <<>> ELSE ButLast(done), Tail(todo))
    ELSE Collapse(Append(done, Head(todo)), Tail(todo))

\* Mutant: the start path taken as it is given, not made absolute.
abspath_as_given(cwd, p) == [abs |-> TRUE, segs |-> Collapse(<<>>, p.segs)]

\* os.path.abspath: normpath(join(os.getcwd(), p))
abspath(cwd, p) == [abs |-> TRUE, segs |-> Collapse(<<>>, PathJoin(cwd, p).segs)]

\* length of the longest common prefix of two sequences
RECURSIVE CommonLen(_, _)
CommonLen(a, b) ==
    IF a = <<>> \/ b = <<>> \/ Head(a) # Head(b) THEN 0
    ELSE 1 + CommonLen(Tail(a), Tail(b))

\* os.path.relpath(path, start): both made absolute, then one ".." for every
\* segment of start after the common prefix, then the rest of path.
relpath(cwd, path, start) ==
    LET s == abspath(cwd, start).segs
        p == abspath(cwd, path).segs
        i == CommonLen(s, p)
        rel == [j \in 1..(Len(s) - i) |-> ".."] \o SubSeq(p, i + 1, Len(p))
    IN  IF rel = <<>> THEN <<".">> ELSE rel

\* the text of a relative path: its segments with "/" between them
RECURSIVE PathStr(_)
PathStr(segs) ==
    IF Len(segs) = 1 THEN <<segs[1]>> ELSE <<segs[1], "/">> \o PathStr(Tail(segs))

sky_models_base_dir == Path(FALSE, <<"sky_models">>)
sky_filename == Path(FALSE, <<"m.osm">>)

\* --------------------------------------------------------- the compilers
\* The two compilers are straight-line code: a sequence of statements on the
\* tree under construction.  A statement is one of
\*   copy_section  tree[key] = deepcopy(defaults[key]) if present, else {}
\*   merge_module  for k, v in deepcopy(defaults.get(key, {})).items(): tree[k] = v
\*   setdefault    tree.setdefault(at[1], {}).setdefault(at[2], {}) ...
\*   set           <the dict at path at of the tree>[key] = <value of src>
Src(from, path, dflt) == [from |-> from, path |-> path, dflt |-> dflt]
NoSrc == Src("none", <<>>, NoneV)
Stmt(op, at, key, src) == [op |-> op, at |-> at, key |-> key, src |-> src]

CopySection(name) == Stmt("copy_section", <<>>, name, NoSrc)
MergeModule(name) == Stmt("merge_module", <<>>, name, NoSrc)
SetDefault(at) == Stmt("setdefault", at, "", NoSrc)
Set(at, key, src) == Stmt("set", at, key, src)

Const(v) == Src("const", <<>>, v)
FromDefaults(path, dflt) == Src("defaults", path, dflt)
FromPc(name) == Src("pc", <<name>>, NoneV)
Effective(name) == Src("effective", <<name>>, NoneV)
FromOutput(name, dflt) == Src("output", <<name>>, dflt)

Text(atom) == StrV(<<atom>>)
ZeroText == StrV(<<"0", ".", "0">>)

\* Mutant: the flag not consulted.
EffectiveError_IgnoringFlag(name) ==
    IF Lookup(current_pc_config, name) = Missing THEN ZeroText
    ELSE Lookup(current_pc_config, name)

\* Lines 578-583 / 732-737: eff_gain_std and eff_phase_std.
EffectiveError(name) ==
    IF include_telescope_errors
    THEN IF Lookup(current_pc_config, name) = Missing THEN ZeroText
         ELSE Lookup(current_pc_config, name)
    ELSE ZeroText

\* Mutant: the y gain field fed from the phase magnitude.
ErrorTimeFields_Crossed ==
    <<<<"x_gain_error_time", "gain_error_std">>,
      <<"y_gain_error_time", "phase_error_std">>,
      <<"x_phase_error_time_deg", "phase_error_std">>,
      <<"y_phase_error_time_deg", "phase_error_std">>>>

\* Lines 585-588 / 739-742: the four fields and the magnitude each is given.
ErrorTimeFields ==
    <<<<"x_gain_error_time", "gain_error_std">>,
      <<"y_gain_error_time", "gain_error_std">>,
      <<"x_phase_error_time_deg", "phase_error_std">>,
      <<"y_phase_error_time_deg", "phase_error_std">>>>

\* Lines 540-545 / 697-702: the telescope directory as seen from the run
\* directory.
tel_input_directory ==
    relpath(project_root_path,
            resolve(PathJoin(project_root_path, oskar_input_directory)),
            current_run_specific_output_dir)

\* Lines 768-773: the sky-model file as seen from the run directory.
sky_model_file ==
    relpath(project_root_path,
            resolve(PathJoin(PathJoin(project_root_path, sky_models_base_dir), sky_filename)),
            current_run_specific_output_dir)

\* the value of the right-hand side of a set statement, or its exception
EvalSource(h, src) ==
    CASE src.from = "const" -> [exc |-> "none", v |-> src.dflt]
      [] src.from = "defaults" -> GetChain(h, oskar_ini_defaults, src.path, src.dflt)
      [] src.from = "pc" ->
            IF Lookup(current_pc_config, src.path[1]) = Missing
            THEN [exc |-> "KeyError", v |-> Missing]
            ELSE [exc |-> "none", v |-> Lookup(current_pc_config, src.path[1])]
      [] src.from = "effective" -> [exc |-> "none", v |-> EffectiveError(src.path[1])]
      [] src.from = "output" ->
            [exc |-> "none",
             v |-> IF Lookup(global_output_config, src.path[1]) = Missing THEN src.dflt
                   ELSE Lookup(global_output_config, src.path[1])]
      [] src.from = "tel_relpath" -> [exc |-> "none", v |-> StrV(PathStr(tel_input_directory))]
      [] src.from = "sky_relpath" -> [exc |-> "none", v |-> StrV(PathStr(sky_model_file))]

\* one statement on the tree with identity root
Exec(h, root, stmt) ==
    CASE stmt.op = "copy_section" ->
            IF Lookup(h[oskar_ini_defaults.n], stmt.key) = Missing
            THEN [h |-> DictSet(Append(h, <<>>), root, stmt.key, Ref(Len(h) + 1)), exc |-> "none"]
            ELSE LET r == deepcopy(h, Lookup(h[oskar_ini_defaults.n], stmt.key))
                 IN  [h |-> DictSet(r.h, root, stmt.key, r.v), exc |-> "none"]
      [] stmt.op = "merge_module" ->
            LET g == GetChain(h, oskar_ini_defaults, <<stmt.key>>, Temp)
            IN  IF g.v.t = "temp" THEN [h |-> h, exc |-> "none"]
                ELSE IF g.v.t # "ref" THEN [h |-> h, exc |-> "AttributeError"]
                ELSE LET r == deepcopy(h, g.v)
                     IN  [h |-> [r.h EXCEPT ![root] = Update(@, r.h[r.v.n])], exc |-> "none"]
      [] stmt.op = "setdefault" ->
            LET r == SetDefaultChain(h, root, stmt.at)
            IN  [h |-> r.h, exc |-> r.exc]
      [] stmt.op = "set" ->
            LET e == EvalSource(h, stmt.src)
                r == SetDefaultChain(h, root, stmt.at)
            IN  IF e.exc # "none" THEN [h |-> h, exc |-> e.exc]
                ELSE IF r.exc # "none" THEN [h |-> h, exc |-> r.exc]
                ELSE IF r.id = 0 THEN [h |-> h, exc |-> "TypeError"]
                ELSE [h |-> DictSet(r.h, r.id, stmt.key, e.v), exc |-> "none"]

\* the statements one after the other, up to the first exception
RECURSIVE Run(_, _, _)
Run(st, root, program) ==
    IF program = <<>> \/ st.exc # "none" THEN st
    ELSE Run(Exec(st.h, root, Head(program)), root, Tail(program))

ElementPath == <<"telescope", "aperture_array", "array_pattern", "element">>

\* Lines 482-588 for app = "oskar_sim_beam_pattern", module =
\* "beam_pattern_module"; lines 647-742 are the same statements for
\* "oskar_sim_interferometer" and "interferometer_module".
SharedStatements(app, module) ==
    <<CopySection("General"), CopySection("simulator"), CopySection("observation"),
      CopySection("telescope"),
      MergeModule(module),
      Set(<<"General">>, "app", Const(Text(app))),
      Set(<<"General">>, "version", FromDefaults(<<"General", "version">>, Text("unknown"))),
      SetDefault(<<"simulator">>),
      Set(<<"simulator">>, "use_gpus", FromDefaults(<<"simulator", "use_gpus">>, NoneV)),
      Set(<<"simulator">>, "double_precision",
          FromDefaults(<<"simulator", "double_precision">>, NoneV)),
      SetDefault(<<"observation">>),
      Set(<<"observation">>, "phase_centre_ra_deg", FromPc("ra_deg")),
      Set(<<"observation">>, "phase_centre_dec_deg", FromPc("dec_deg")),
      Set(<<"observation">>, "start_time_utc", FromPc("start_time_utc")),
      Set(<<"observation">>, "start_frequency_hz",
          FromDefaults(<<"observation", "start_frequency_hz">>, NoneV)),
      Set(<<"observation">>, "frequency_inc_hz",
          FromDefaults(<<"observation", "frequency_inc_hz">>, NoneV)),
      Set(<<"observation">>, "num_channels",
          FromDefaults(<<"observation", "num_channels">>, NoneV)),
      Set(<<"observation">>, "length", FromDefaults(<<"observation", "length">>, NoneV)),
      Set(<<"observation">>, "num_time_steps",
          FromDefaults(<<"observation", "num_time_steps">>, NoneV)),
      SetDefault(<<"telescope">>),
      Set(<<"telescope">>, "input_directory", Src("tel_relpath", <<>>, NoneV)),
      SetDefault(<<"telescope", "aperture_array">>),
      SetDefault(<<"telescope", "aperture_array", "element_pattern">>),
      SetDefault(ElementPath),
      Set(<<"telescope", "aperture_array", "element_pattern">>, "enable_numerical",
          FromDefaults(<<"telescope", "aperture_array", "element_pattern", "enable_numerical">>,
                       BoolV(FALSE))),
      Set(ElementPath, "x_gain", FromDefaults(Append(ElementPath, "x_gain"), NoneV)),
      Set(ElementPath, "y_gain", FromDefaults(Append(ElementPath, "y_gain"), NoneV)),
      Set(ElementPath, "x_phase_error_fixed_deg",
          FromDefaults(Append(ElementPath, "x_phase_error_fixed_deg"), NoneV)),
      Set(ElementPath, "y_phase_error_fixed_deg",
          FromDefaults(Append(ElementPath, "y_phase_error_fixed_deg"), NoneV))>>
    \o [i \in 1..4 |-> Set(ElementPath, ErrorTimeFields[i][1], Effective(ErrorTimeFields[i][2]))]

\* Lines 480-614.
BeamProgram ==
    SharedStatements("oskar_sim_beam_pattern", "beam_pattern_module")
    \o <<SetDefault(<<"beam_pattern">>),
         SetDefault(<<"beam_pattern", "beam_image">>),
         Set(<<"beam_pattern", "beam_image">>, "fov_deg",
             FromDefaults(<<"beam_pattern_module", "beam_pattern", "beam_image", "fov_deg">>,
                          NoneV)),
         Set(<<"beam_pattern">>, "root_path",
             FromOutput("beam_root_path_base", Text("beam_output_default"))),
         SetDefault(<<"beam_pattern", "station_outputs", "fits_image">>),
         Set(<<"beam_pattern", "station_outputs", "fits_image">>, "amp",
             FromDefaults(<<"beam_pattern_module", "beam_pattern", "station_outputs",
                            "fits_image", "amp">>, BoolV(TRUE)))>>

\* Lines 645-778.
InterfProgram ==
    SharedStatements("oskar_sim_interferometer", "interferometer_module")
    \o <<SetDefault(<<"interferometer">>),
         Set(<<"interferometer">>, "ms_filename",
             FromOutput("interf_ms_base_filename", Text("vis_default.ms"))),
         Set(<<"interferometer">>, "channel_bandwidth_hz",
             FromDefaults(<<"interferometer_module", "interferometer", "channel_bandwidth_hz">>,
                          NoneV)),
         Set(<<"interferometer">>, "time_average_sec",
             FromDefaults(<<"interferometer_module", "interferometer", "time_average_sec">>,
                          NoneV)),
         SetDefault(<<"sky", "oskar_sky_model">>),
         Set(<<"sky", "oskar_sky_model">>, "file", Src("sky_relpath", <<>>, NoneV)),
         SetDefault(<<"sky", "oskar_sky_model", "filter">>),
         Set(<<"sky", "oskar_sky_model", "filter">>, "radius_outer_deg",
             FromDefaults(<<"interferometer_module", "sky", "oskar_sky_model", "filter",
                            "radius_outer_deg">>, NoneV))>>

CompilerIdle ==
    /\ cpc = "off"
    /\ heap = <<>>
    /\ oskar_ini_defaults = NoneV
    /\ defaults_at_load = NoneV
    /\ current_pc_config = <<>>
    /\ global_output_config = <<>>
    /\ project_root_path = Path(TRUE, <<>>)
    /\ oskar_input_directory = Path(FALSE, <<>>)
    /\ current_run_specific_output_dir = Path(FALSE, <<>>)
    /\ trees = <<>>
    /\ compile_exc = "none"
    /\ steps = 0

NoPath == Path(FALSE, <<>>)

LaunchIdle ==
    /\ lpc = "off"
    /\ base_output_dir = NoPath
    /\ executables_cfg = <<>>
    /\ current_run_output_dir = NoPath
    /\ stage = "none"
    /\ ini_file_path = NoPath
    /\ written_file = <<>>
    /\ executable_path = <<>>
    /\ cwd_path = NoPath
    /\ command = <<>>
    /\ checked_file = <<>>
    /\ opened_file = <<>>

\* --------------------------------------------------------------- the call
\* Entering a runner: the arguments are bound and the locals are fresh.
Call(k, dry, exists, none) ==
    /\ kind' = k
    /\ is_dry_run' = dry
    /\ ini_exists' = exists
    /\ cfg_none' = none
    /\ inv' = inv + 1
    /\ pc' = "build"
    /\ exc' = "none"
    /\ retval' = "none"
    /\ result' = "none"
    /\ launched' = "none"
    /\ ops' = <<>>
    /\ console' = <<>>
    /\ buf' = <<>>
    /\ UNCHANGED <<log, launches, faults, logAtLaunch>>

\* ------------------------------------------------------- the runner steps
\* Lines 27-44 / 177-186 / 303-312: log_file_path, command and the display
\* string are built before the try statement.  run_calibrate calls
\* hyperdrive_cfg.get(...) here: with hyperdrive_cfg = None this raises
\* AttributeError, outside every handler, so it reaches the caller.
BuildCommand ==
    /\ pc = "build"
    /\ UNCHANGED mainVars
    /\ IF kind = "calib" /\ cfg_none
       THEN /\ pc' = "raised"
            /\ result' = "raised"
       ELSE /\ pc' = "open"
            /\ UNCHANGED result
    /\ UNCHANGED <<log, buf, kind, is_dry_run, ini_exists, cfg_none, exc, retval,
                   launched, launches, ops, console, inv, faults, logAtLaunch>>

\* Line 47 / 191 / 315: with open(log_file_path, "a") as log_f.  Append mode
\* never truncates.  The open may raise FileNotFoundError (the run directory
\* is missing) or another OSError; both leave the try body at once.
OpenLog ==
    /\ pc = "open"
    /\ UNCHANGED mainVars
    /\ \/ /\ ops' = Append(ops, Op("open", TRUE))
          /\ log' = AppendMode(log)
          /\ pc' = "preamble"
          /\ UNCHANGED <<exc, faults>>
       \/ /\ faults < MaxFaults
          /\ \E e \in {"FileNotFoundError", "OSError"} : exc' = e
          /\ ops' = Append(ops, Op("open", FALSE))
          /\ faults' = faults + 1
          /\ pc' = "handler"
          /\ UNCHANGED log
    /\ UNCHANGED <<buf, kind, is_dry_run, ini_exists, cfg_none, retval, result,
                   launched, launches, console, inv, logAtLaunch>>

\* Lines 48-58 / 192-202 / 316-321: the preamble is written to the handle.
WritePreamble ==
    /\ pc = "preamble"
    /\ UNCHANGED mainVars
    /\ buf' = buf \o Entries(Preamble(kind))
    /\ ops' = Append(ops, Op("preamble", TRUE))
    /\ pc' = "check"
    /\ UNCHANGED <<log, kind, is_dry_run, ini_exists, cfg_none, exc, retval, result,
                   launched, launches, console, inv, faults, logAtLaunch>>

\* Mutant: the dry-run check comes before the existence check.
CheckInput_DryRunFirst ==
    /\ pc = "check"
    /\ UNCHANGED mainVars
    /\ IF is_dry_run
       THEN /\ console' = Append(console, "dry_run")
            /\ buf' = buf \o Entries(<<"DRY_RUN", "dry_run_concluded">>)
            /\ retval' = "True"
            /\ pc' = "close"
       ELSE IF InputMissing
       THEN /\ console' = Append(console, "error_ini_not_found")
            /\ buf' = buf \o Entries(<<"ERROR", "not_started">>)
            /\ retval' = "False"
            /\ pc' = "close"
       ELSE /\ console' = Append(console, "executing")
            /\ pc' = "launch"
            /\ UNCHANGED <<buf, retval>>
    /\ ops' = Append(ops, Op("check", TRUE))
    /\ UNCHANGED <<log, kind, is_dry_run, ini_exists, cfg_none, exc, result,
                   launched, launches, inv, faults, logAtLaunch>>

\* Lines 60-78 / 204-220 / 323-330: the existence check (simulators only),
\* then the dry-run check, else on to subprocess.run.
CheckInput ==
    /\ pc = "check"
    /\ UNCHANGED mainVars
    /\ IF InputMissing
       THEN /\ console' = Append(console, "error_ini_not_found")
            /\ buf' = buf \o Entries(<<"ERROR", "not_started">>)
            /\ retval' = "False"
            /\ pc' = "close"
       ELSE IF is_dry_run
       THEN /\ console' = Append(console, "dry_run")
            /\ buf' = buf \o Entries(<<"DRY_RUN", "dry_run_concluded">>)
            /\ retval' = "True"
            /\ pc' = "close"
       ELSE /\ console' = Append(console, "executing")
            /\ pc' = "launch"
            /\ UNCHANGED <<buf, retval>>
    /\ ops' = Append(ops, Op("check", TRUE))
    /\ UNCHANGED <<log, kind, is_dry_run, ini_exists, cfg_none, exc, result,
                   launched, launches, inv, faults, logAtLaunch>>

\* Lines 80-120 / 221-257 / 331-369: subprocess.run, then the outcome lines.
Launch ==
    /\ pc = "launch"
    /\ UNCHANGED mainVars
    /\ \E o \in LaunchOutcomes :
        /\ launched' = o
        /\ ops' = Append(ops, Op("launch", o \in {"exit0", "exitN"}))
        /\ CASE o = "exit0" ->
                  /\ buf' = buf \o Entries(<<"exit_code", "stdout", "stderr", "SUCCESS">>)
                  /\ console' = Append(console, "success")
                  /\ retval' = ReturnFor(o)
                  /\ UNCHANGED exc
             [] o = "exitN" ->
                  /\ buf' = buf \o Entries(<<"exit_code", "stdout", "stderr", "ERROR_FAILED">>)
                  /\ console' = console \o <<"error_exit_code", "captured_output">>
                  /\ retval' = ReturnFor(o)
                  /\ UNCHANGED exc
             [] OTHER ->
                  /\ exc' = o
                  /\ UNCHANGED <<buf, console, retval>>
    /\ launches' = launches + 1
    /\ logAtLaunch' = log
    /\ pc' = "close"
    /\ UNCHANGED <<log, kind, is_dry_run, ini_exists, cfg_none, result, inv, faults>>

\* The with-block is left (by return or by an exception): log_f is closed and
\* its buffer flushed to the file.  A failing flush leaves the file as it was
\* (the buffered lines are lost) and raises OSError, which replaces a pending
\* return value or exception.
CloseLog ==
    /\ pc = "close"
    /\ UNCHANGED mainVars
    /\ \/ /\ log' = log \o buf
          /\ ops' = Append(ops, Op("close", TRUE))
          /\ pc' = IF exc = "none" THEN "finally" ELSE "handler"
          /\ UNCHANGED <<exc, retval, faults>>
       \/ /\ faults < MaxFaults
          /\ log' = log
          /\ ops' = Append(ops, Op("close", FALSE))
          /\ exc' = "OSError"
          /\ retval' = "none"
          /\ faults' = faults + 1
          /\ pc' = "handler"
    /\ buf' = <<>>
    /\ UNCHANGED <<kind, is_dry_run, ini_exists, cfg_none, result, launched,
                   launches, console, inv, logAtLaunch>>

\* Mutant: both handlers write the "unexpected" lines.
HandlerLines_Unexpected(e) == <<"UNEXPECTED_FATAL_ERROR", "state_unknown">>

\* The lines one handler tries to append: lines 129-130 / 140-141.
HandlerLines(e) ==
    IF e = "FileNotFoundError" THEN <<"FATAL_ERROR", "not_started">>
    ELSE <<"UNEXPECTED_FATAL_ERROR", "state_unknown">>

\* Lines 122-144 / 259-280 / 371-392: except FileNotFoundError / except
\* Exception.  Print, try to append two lines (a failure is swallowed),
\* return False.
HandleError ==
    /\ pc = "handler"
    /\ UNCHANGED mainVars
    /\ console' = Append(console, IF exc = "FileNotFoundError"
                                  THEN "error_executable_not_found"
                                  ELSE "error_unexpected")
    /\ \/ /\ log' = log \o Entries(HandlerLines(exc))
          /\ ops' = Append(ops, Op("err_append", TRUE))
          /\ UNCHANGED faults
       \/ /\ faults < MaxFaults
          /\ log' = log
          /\ ops' = Append(ops, Op("err_append", FALSE))
          /\ faults' = faults + 1
    /\ retval' = "False"
    /\ pc' = "finally"
    /\ UNCHANGED <<buf, kind, is_dry_run, ini_exists, cfg_none, exc, result,
                   launched, launches, inv, logAtLaunch>>

\* Mutant: the closing append runs "only if the initial with open succeeded"
\* (what the comment at lines 146-147 says of it): it is skipped when the log
\* could not be opened.
FinalAppend_SkippedAfterFailedOpen ==
    /\ pc = "finally"
    /\ UNCHANGED mainVars
    /\ IF \E i \in DOMAIN ops : ops[i].op = "open" /\ ~ops[i].ok
       THEN UNCHANGED <<log, ops, faults>>
       ELSE \/ /\ log' = log \o Entries(<<"concluded">>)
               /\ ops' = Append(ops, Op("final_append", TRUE))
               /\ UNCHANGED faults
            \/ /\ faults < MaxFaults
               /\ log' = log
               /\ ops' = Append(ops, Op("final_append", FALSE))
               /\ faults' = faults + 1
    /\ result' = retval
    /\ pc' = "returned"
    /\ UNCHANGED <<buf, kind, is_dry_run, ini_exists, cfg_none, exc, retval,
                   launched, launches, console, inv, logAtLaunch>>

\* Lines 145-159 / 281-289 / 393-401: the finally clause appends the closing
\* line through a handle of its own; a failure is swallowed; the function
\* then returns the value of the return statement that was reached.
FinalAppend ==
    /\ pc = "finally"
    /\ UNCHANGED mainVars
    /\ \/ /\ log' = log \o Entries(<<"concluded">>)
          /\ ops' = Append(ops, Op("final_append", TRUE))
          /\ UNCHANGED faults
       \/ /\ faults < MaxFaults
          /\ log' = log
          /\ ops' = Append(ops, Op("final_append", FALSE))
          /\ faults' = faults + 1
    /\ result' = retval
    /\ pc' = "returned"
    /\ UNCHANGED <<buf, kind, is_dry_run, ini_exists, cfg_none, exc, retval,
                   launched, launches, console, inv, logAtLaunch>>

\* ------------------------------------------- runners called in any order
Init ==
    /\ log = <<>>
    /\ buf = <<>>
    /\ pc = "idle"
    /\ kind = "beam"
    /\ is_dry_run = FALSE
    /\ ini_exists = FALSE
    /\ cfg_none = FALSE
    /\ exc = "none"
    /\ retval = "none"
    /\ result = "none"
    /\ launched = "none"
    /\ launches = 0
    /\ ops = <<>>
    /\ console = <<>>
    /\ inv = 0
    /\ faults = 0
    /\ logAtLaunch = <<>>
    /\ mpc = "off"
    /\ run_beam_sim = FALSE
    /\ run_interf_sim = FALSE
    /\ run_hyperdrive = FALSE
    /\ dry_run = FALSE
    /\ hyperdrive_cfg = "dict"
    /\ nTel = 0 /\ nSky = 0 /\ nPc = 0
    /\ bad_pc = 0 /\ bad_sky = 0
    /\ telescope_configs = <<>>
    /\ sky_model_configs = <<>>
    /\ phase_centre_configs = <<>>
    /\ images_folder_pattern = DefaultFolderPattern
    /\ include_telescope_errors = FALSE
    /\ tel = 0 /\ sky = 0 /\ pcIdx = 0
    /\ run_counter = 0
    /\ combos = <<>>
    /\ folders = <<>>
    /\ attempted = <<>>
    /\ beamFailed = FALSE
    /\ WriterIdle
    /\ CompilerIdle
    /\ LaunchIdle

\* Any caller: one of the three runners is called on the shared run
\* directory once the previous call is over.
Invoke ==
    /\ pc \in {"idle", "returned", "raised"}
    /\ inv < MaxInvocations
    /\ \E k \in Runners, dry \in BOOLEAN, exists \in BOOLEAN, none \in BOOLEAN :
        /\ (k = "calib") => exists
        /\ (k \in Sims) => ~none
        /\ Call(k, dry, exists, none)
    /\ UNCHANGED mainVars

Next ==
    \/ Invoke
    \/ BuildCommand
    \/ OpenLog
    \/ WritePreamble
    \/ CheckInput
    \/ Launch
    \/ CloseLog
    \/ HandleError
    \/ FinalAppend

Spec == Init /\ [][Next]_vars

\* ------------------------------------------------------------------ main
\* The settings document main() has loaded (lines 806-831).  The records of
\* an axis are complete except possibly one phase-centre record without
\* "ra_deg" and one sky-model record without "filename".  Settings no enabled
\* stage reads are left at their plain value.
InitSweep ==
    /\ log = <<>>
    /\ buf = <<>>
    /\ pc = "idle"
    /\ kind = "beam"
    /\ is_dry_run = FALSE
    /\ ini_exists = FALSE
    /\ cfg_none = FALSE
    /\ exc = "none"
    /\ retval = "none"
    /\ result = "none"
    /\ launched = "none"
    /\ launches = 0
    /\ ops = <<>>
    /\ console = <<>>
    /\ inv = 0
    /\ faults = 0
    /\ logAtLaunch = <<>>
    /\ mpc = "start"
    /\ run_beam_sim \in BOOLEAN
    /\ run_interf_sim \in BOOLEAN
    /\ run_hyperdrive \in BOOLEAN
    /\ dry_run \in BOOLEAN
    /\ hyperdrive_cfg \in {"dict", "None"}
    /\ (hyperdrive_cfg = "None") => run_hyperdrive
    /\ nTel \in 0..MaxAxis
    /\ nSky \in 0..MaxAxis
    /\ nPc \in 0..MaxAxis
    /\ nTel * nSky * nPc <= MaxCombinations
    /\ bad_pc \in 0..nPc
    /\ bad_sky \in 0..nSky
    /\ (bad_pc # 0) => (run_beam_sim \/ run_interf_sim)
    /\ (bad_sky # 0) => run_interf_sim
    /\ telescope_configs = [i \in 1..nTel |-> <<"tel", Digits[i]>>]
    /\ sky_model_configs = [i \in 1..nSky |-> <<"sky", Digits[i], ".", "osm">>]
    /\ phase_centre_configs = [i \in 1..nPc |-> <<"pc", Digits[i]>>]
    /\ images_folder_pattern = DefaultFolderPattern
    /\ include_telescope_errors = FALSE
    /\ tel = 0 /\ sky = 0 /\ pcIdx = 0
    /\ run_counter = 0
    /\ combos = <<>>
    /\ folders = <<>>
    /\ attempted = <<>>
    /\ beamFailed = FALSE
    /\ WriterIdle
    /\ CompilerIdle
    /\ LaunchIdle

\* Mutant: the base output directory created before the axes are examined.
MainStart_BaseDirFirst ==
    /\ mpc = "start"
    /\ folders' = Append(folders, <<"base">>)
    /\ IF nTel = 0 \/ nSky = 0 \/ nPc = 0
       THEN /\ mpc' = "done"
            /\ UNCHANGED <<tel, sky, pcIdx>>
       ELSE /\ mpc' = "combo"
            /\ tel' = 1 /\ sky' = 1 /\ pcIdx' = 1
    /\ UNCHANGED <<runnerVars, settingsVars, dataVars, run_counter, combos, attempted,
                   beamFailed>>

\* Lines 833-842: an empty axis ends main before anything is produced;
\* otherwise the three nested loops start at their first records.
MainStart ==
    /\ mpc = "start"
    /\ IF nTel = 0 \/ nSky = 0 \/ nPc = 0
       THEN /\ mpc' = "done"
            /\ UNCHANGED <<tel, sky, pcIdx>>
       ELSE /\ mpc' = "combo"
            /\ tel' = 1 /\ sky' = 1 /\ pcIdx' = 1
    /\ UNCHANGED <<runnerVars, settingsVars, dataVars, run_counter, combos, folders, attempted, beamFailed>>

\* Lines 859: the token for the error-injection flag.
error_suffix ==
    IF include_telescope_errors THEN <<"_", "errors", "_", "on">>
    ELSE <<"_", "errors", "_", "off">>

\* Lines 845-866: the folder name of the combination of the loop indices.
current_run_images_folder_name ==
    Format(images_folder_pattern,
           [x \in {"{sky_name_no_ext}", "{tel_name}", "{error_suffix}", "{pc_id}"} |->
               CASE x = "{sky_name_no_ext}" -> get_sky_model_name_no_ext(sky_model_configs[sky])
                 [] x = "{tel_name}" -> telescope_configs[tel]
                 [] x = "{error_suffix}" -> error_suffix
                 [] x = "{pc_id}" -> phase_centre_configs[pcIdx]])

\* Lines 843-873: the head of one iteration: count it, derive the run
\* directory and create it.  run.log of the new run directory (a fresh
\* directory: empty) is what the runners append to from now on.
EnterCombination ==
    /\ mpc = "combo"
    /\ run_counter' = run_counter + 1
    /\ combos' = Append(combos, <<tel, sky, pcIdx>>)
    /\ folders' = Append(folders, current_run_images_folder_name)
    /\ log' = <<>>
    /\ mpc' = "beam"
    /\ UNCHANGED <<buf, pc, kind, is_dry_run, ini_exists, cfg_none, exc, retval,
                   result, launched, launches, ops, console, inv, faults, logAtLaunch>>
    /\ UNCHANGED <<settingsVars, dataVars, tel, sky, pcIdx, attempted, beamFailed>>

\* generate_beam_ini_data raises KeyError at line 523 when the phase-centre
\* record has no "ra_deg".
BeamCompileRaises == bad_pc = pcIdx

\* generate_interf_ini_data raises KeyError at line 684 (phase centre) or at
\* line 769 (sky-model record without "filename").
InterfCompileRaises == bad_pc = pcIdx \/ bad_sky = sky

\* One simulation stage of main up to the call of its runner: compile the
\* tree, write the INI file (open(output_path, "w") may raise), call the
\* runner with the file just written.
SimStage(k, raises, nextpc) ==
    /\ attempted' = Append(attempted, <<tel, sky, pcIdx, k>>)
    /\ IF raises
       THEN /\ mpc' = "aborted"
            /\ UNCHANGED runnerVars
       ELSE \/ /\ Call(k, dry_run, TRUE, FALSE)
               /\ mpc' = nextpc
            \/ /\ faults < MaxFaults
               /\ faults' = faults + 1
               /\ mpc' = "aborted"
               /\ UNCHANGED <<log, buf, pc, kind, is_dry_run, ini_exists, cfg_none,
                              exc, retval, result, launched, launches, ops, console,
                              inv, logAtLaunch>>

\* Lines 876-900.
BeamStage ==
    /\ mpc = "beam"
    /\ IF run_beam_sim
       THEN SimStage("beam", BeamCompileRaises, "beam_called")
       ELSE /\ mpc' = "interf"
            /\ UNCHANGED <<runnerVars, attempted>>
    /\ UNCHANGED <<settingsVars, dataVars, tel, sky, pcIdx, run_counter, combos, folders, beamFailed>>

\* Mutant: the beam runner started without waiting for it (Popen in place of
\* the blocking subprocess.run): main goes on while the runner is still busy.
AfterBeam_NotWaiting ==
    /\ mpc = "beam_called"
    /\ beamFailed' = (beamFailed \/ result = "False")
    /\ mpc' = "interf"
    /\ UNCHANGED <<runnerVars, settingsVars, dataVars, tel, sky, pcIdx, run_counter, combos, folders, attempted>>

\* Lines 893-903: run_oskar_sim_beam has returned; success is only printed.
AfterBeam ==
    /\ mpc = "beam_called"
    /\ pc = "returned"
    /\ beamFailed' = (beamFailed \/ result = "False")
    /\ mpc' = "interf"
    /\ UNCHANGED <<runnerVars, settingsVars, dataVars, tel, sky, pcIdx, run_counter, combos, folders, attempted>>

\* Lines 906-938.
InterfStage ==
    /\ mpc = "interf"
    /\ IF run_interf_sim
       THEN SimStage("interf", InterfCompileRaises, "interf_called")
       ELSE /\ mpc' = "calib"
            /\ UNCHANGED <<runnerVars, attempted>>
    /\ UNCHANGED <<settingsVars, dataVars, tel, sky, pcIdx, run_counter, combos, folders, beamFailed>>

\* Lines 931-941.
AfterInterf ==
    /\ mpc = "interf_called"
    /\ pc = "returned"
    /\ mpc' = "calib"
    /\ UNCHANGED <<runnerVars, settingsVars, dataVars, tel, sky, pcIdx, run_counter, combos, folders, attempted,
                   beamFailed>>

\* Lines 943-950: run_calibrate is called with hyperdrive_cfg as loaded.
CalibStage ==
    /\ mpc = "calib"
    /\ IF run_hyperdrive
       THEN /\ attempted' = Append(attempted, <<tel, sky, pcIdx, "calib">>)
            /\ Call("calib", dry_run, TRUE, hyperdrive_cfg = "None")
            /\ mpc' = "calib_called"
       ELSE /\ mpc' = "next"
            /\ UNCHANGED <<runnerVars, attempted>>
    /\ UNCHANGED <<settingsVars, dataVars, tel, sky, pcIdx, run_counter, combos, folders, beamFailed>>

\* run_calibrate is over: it returned, or its exception leaves main.
AfterCalib ==
    /\ mpc = "calib_called"
    /\ pc \in {"returned", "raised"}
    /\ mpc' = IF pc = "raised" THEN "aborted" ELSE "next"
    /\ UNCHANGED <<runnerVars, settingsVars, dataVars, tel, sky, pcIdx, run_counter, combos, folders, attempted,
                   beamFailed>>

\* Lines 840-842: the three for statements advance, phase centre innermost.
NextCombination ==
    /\ mpc = "next"
    /\ IF pcIdx < nPc
       THEN /\ pcIdx' = pcIdx + 1
            /\ mpc' = "combo"
            /\ UNCHANGED <<tel, sky>>
       ELSE IF sky < nSky
       THEN /\ sky' = sky + 1
            /\ pcIdx' = 1
            /\ mpc' = "combo"
            /\ UNCHANGED tel
       ELSE IF tel < nTel
       THEN /\ tel' = tel + 1
            /\ sky' = 1
            /\ pcIdx' = 1
            /\ mpc' = "combo"
       ELSE /\ mpc' = "done"
            /\ UNCHANGED <<tel, sky, pcIdx>>
    /\ UNCHANGED <<runnerVars, settingsVars, dataVars, run_counter, combos, folders, attempted, beamFailed>>

NextSweep ==
    \/ MainStart
    \/ EnterCombination
    \/ BeamStage
    \/ AfterBeam
    \/ InterfStage
    \/ AfterInterf
    \/ CalibStage
    \/ AfterCalib
    \/ NextCombination
    \/ BuildCommand
    \/ OpenLog
    \/ WritePreamble
    \/ CheckInput
    \/ Launch
    \/ CloseLog
    \/ HandleError
    \/ FinalAppend

SpecSweep == InitSweep /\ [][NextSweep]_vars

\* ------------------------------------------- main with no stage enabled
\* The names the records of the three axes may carry.
TelNames == {<<"a">>, <<"c">>, <<"b", "_", "c">>}
SkyFiles == {<<"m">>, <<"m", ".", "osm">>, <<"m", ".", "txt">>, <<"m", "_", "b", ".", "osm">>}
PcIds == {<<"p1">>, <<"p2">>}

\* A template of the user's own: other separators, another order.
UserFolderPattern ==
    <<"{tel_name}", "-", "{sky_name_no_ext}", "-", "{pc_id}", "{error_suffix}">>

\* the lists of n pairwise distinct members of S
DistinctLists(S, n) == {f \in [1..n -> S] : \A i, j \in 1..n : (i # j) => f[i] # f[j]}

RunnerIdle ==
    /\ log = <<>>
    /\ buf = <<>>
    /\ pc = "idle"
    /\ kind = "beam"
    /\ is_dry_run = FALSE
    /\ ini_exists = FALSE
    /\ cfg_none = FALSE
    /\ exc = "none"
    /\ retval = "none"
    /\ result = "none"
    /\ launched = "none"
    /\ launches = 0
    /\ ops = <<>>
    /\ console = <<>>
    /\ inv = 0
    /\ faults = 0
    /\ logAtLaunch = <<>>

\* A settings document with all three stages switched off and three
\* non-empty axes whose records carry pairwise distinct names, file names and
\* ids: main only derives and creates the run directories (lines 839-873).
InitNaming ==
    /\ RunnerIdle
    /\ mpc = "start"
    /\ run_beam_sim = FALSE
    /\ run_interf_sim = FALSE
    /\ run_hyperdrive = FALSE
    /\ dry_run = FALSE
    /\ hyperdrive_cfg = "dict"
    /\ nTel \in 1..MaxAxis
    /\ nSky \in 1..MaxAxis
    /\ nPc \in 1..MaxAxis
    /\ nTel * nSky * nPc <= MaxCombinations
    /\ bad_pc = 0 /\ bad_sky = 0
    /\ telescope_configs \in DistinctLists(TelNames, nTel)
    /\ sky_model_configs \in DistinctLists(SkyFiles, nSky)
    /\ phase_centre_configs \in DistinctLists(PcIds, nPc)
    /\ images_folder_pattern \in {DefaultFolderPattern, UserFolderPattern}
    /\ include_telescope_errors \in BOOLEAN
    /\ tel = 0 /\ sky = 0 /\ pcIdx = 0
    /\ run_counter = 0
    /\ combos = <<>>
    /\ folders = <<>>
    /\ attempted = <<>>
    /\ beamFailed = FALSE
    /\ WriterIdle
    /\ CompilerIdle
    /\ LaunchIdle

NextNaming ==
    \/ MainStart
    \/ EnterCombination
    \/ BeamStage
    \/ InterfStage
    \/ CalibStage
    \/ NextCombination

SpecNaming == InitNaming /\ [][NextNaming]_vars

\* ------------------------------------- the flattener and the writer alone
MaxEntries == 4

Keys == {<<"K", "b">>, <<"k", "b">>}
Scalars == {NoneV, BoolV(TRUE), BoolV(FALSE), IntV(10), StrV(<<"T", "r", "u", "e">>),
            StrV(<<"5", "0", "%">>)}

\* The dicts with n items in all, nested ones counted, no key twice in a dict.
RECURSIVE Dicts(_)
Dicts(n) ==
    IF n = 0 THEN {<<>>}
    ELSE UNION {
           UNION {
             {<<Item(k, v)>> \o rest :
                  v \in (IF m = 1 THEN Scalars ELSE {}) \cup {DictV(d) : d \in Dicts(m - 1)},
                  rest \in {r \in Dicts(n - m) : \A i \in DOMAIN r : r[i].key # k}}
             : k \in Keys}
           : m \in 1..n}

\* What a top-level entry of a tree of three entries may hold.
SectionValues ==
    {NoneV, IntV(10), StrV(<<"T", "r", "u", "e">>), DictV(<<>>),
     DictV(<<Item(<<"K", "b">>, BoolV(TRUE))>>),
     DictV(<<Item(<<"K", "b">>, StrV(<<"5", "0", "%">>))>>),
     DictV(<<Item(<<"k", "b">>,
                  DictV(<<Item(<<"K", "b">>, IntV(10)), Item(<<"k", "b">>, NoneV)>>))>>)}

\* The trees of three entries.
ThreeSections ==
    {<<Item(<<"K", "b">>, x), Item(<<"s">>, y), Item(<<"k", "b">>, z)>> :
        x \in SectionValues, y \in SectionValues, z \in SectionValues}

\* The trees of one section in which a key holds the separator: the key
\* "k/b" beside the subsection k with the key b, in either order.
SlashSections ==
    {<<Item(<<"s">>, DictV(d))>> :
        d \in UNION {{<<Item(<<"k", "/", "b">>, x), Item(<<"k">>, DictV(<<Item(<<"b">>, y)>>))>>,
                      <<Item(<<"k">>, DictV(<<Item(<<"b">>, y)>>)), Item(<<"k", "/", "b">>, x)>>,
                      <<Item(<<"k", "/", "b">>, x), Item(<<"b">>, y)>>}
                     : x \in {NoneV, IntV(10), BoolV(TRUE)}, y \in {NoneV, IntV(10)}}}

\* A tree is at hand: its top-level items are the sections.
InitFlatten ==
    /\ RunnerIdle
    /\ mpc = "off"
    /\ run_beam_sim = FALSE
    /\ run_interf_sim = FALSE
    /\ run_hyperdrive = FALSE
    /\ dry_run = FALSE
    /\ hyperdrive_cfg = "dict"
    /\ nTel = 0 /\ nSky = 0 /\ nPc = 0
    /\ bad_pc = 0 /\ bad_sky = 0
    /\ telescope_configs = <<>>
    /\ sky_model_configs = <<>>
    /\ phase_centre_configs = <<>>
    /\ images_folder_pattern = DefaultFolderPattern
    /\ include_telescope_errors = FALSE
    /\ tel = 0 /\ sky = 0 /\ pcIdx = 0
    /\ run_counter = 0
    /\ combos = <<>>
    /\ folders = <<>>
    /\ attempted = <<>>
    /\ beamFailed = FALSE
    /\ wpc = "input"
    /\ \/ \E n \in 1..MaxEntries : ini_data_dict \in Dicts(n)
       \/ ini_data_dict \in ThreeSections
       \/ ini_data_dict \in SlashSections
    /\ flat_dict = <<>>
    /\ flat_arg = 0
    /\ ini_file = <<>>
    /\ ini_written = FALSE
    /\ ini_warnings = <<>>
    /\ ini_exc = "none"
    /\ CompilerIdle
    /\ LaunchIdle

\* A call of _flatten_settings_for_configparser on the dict of one section.
CallFlatten ==
    /\ wpc = "input"
    /\ \E i \in DOMAIN ini_data_dict :
        /\ ini_data_dict[i].value.t = "dict"
        /\ flat_arg' = i
        /\ flat_dict' = flatten_settings_for_configparser(ini_data_dict[i].value.d, <<>>)
    /\ UNCHANGED <<wpc, ini_data_dict, ini_file, ini_written, ini_warnings, ini_exc>>
    /\ UNCHANGED <<runnerVars, sweepVars, compilerVars, launchVars>>

\* Lines 428-453: write_ini_file_with_configparser.  The parser is filled
\* section by section; only then is the file opened (mode "w") and written.
\* An exception of the parser or of open leaves the function.
WriteIni ==
    /\ wpc = "input"
    /\ LET cfg == BuildConfig(ini_data_dict, [sections |-> <<>>, warnings |-> <<>>, exc |-> "none"])
       IN  /\ ini_warnings' = cfg.warnings
           /\ \/ /\ cfg.exc = "none"
                 /\ ini_file' = cfg.sections
                 /\ ini_written' = TRUE
                 /\ ini_exc' = "none"
                 /\ UNCHANGED faults
              \/ /\ cfg.exc # "none"
                 /\ ini_exc' = cfg.exc
                 /\ UNCHANGED <<ini_file, ini_written, faults>>
              \/ /\ cfg.exc = "none"
                 /\ faults < MaxFaults
                 /\ faults' = faults + 1
                 /\ ini_exc' = "OSError"
                 /\ UNCHANGED <<ini_file, ini_written>>
    /\ wpc' = "done"
    /\ UNCHANGED <<ini_data_dict, flat_dict, flat_arg>>
    /\ UNCHANGED <<log, buf, pc, kind, is_dry_run, ini_exists, cfg_none, exc, retval,
                   result, launched, launches, ops, console, inv, logAtLaunch>>
    /\ UNCHANGED <<sweepVars, compilerVars, launchVars>>

NextFlatten ==
    \/ CallFlatten
    \/ WriteIni

SpecFlatten == InitFlatten /\ [][NextFlatten]_vars

\* ------------------------------------------------- the compilers alone
MaxSteps == 3

Dict(pairs) == DictV([i \in DOMAIN pairs |-> Item(<<pairs[i][1]>>, pairs[i][2])])

\* What each part of oskar_ini_defaults may be ("absent": no such key).
Absent == Missing
GeneralChoices == {Absent, Dict(<<<<"version", Text("2.8")>>>>)}
SimulatorChoices ==
    {Absent,
     Dict(<<<<"use_gpus", BoolV(TRUE)>>, <<"extra", Dict(<<<<"deep", IntV(1)>>>>)>>>>)}
ObservationChoices ==
    {Absent,
     Dict(<<<<"length", Text("01:00")>>>>),
     Dict(<<<<"length", Dict(<<<<"h", IntV(1)>>>>)>>>>)}
TelescopeChoices ==
    {Absent,
     Dict(<<<<"aperture_array",
             Dict(<<<<"array_pattern",
                     Dict(<<<<"element",
                             Dict(<<<<"x_gain", IntV(1)>>,
                                    <<"x_gain_error_time", Text("0.3")>>,
                                    <<"y_phase_error_time_deg", Text("9")>>>>)>>>>)>>>>)>>>>)}
BeamModuleChoices ==
    {Absent,
     Dict(<<<<"beam_pattern",
             Dict(<<<<"beam_image",
                     Dict(<<<<"fov_deg", IntV(180)>>, <<"size", IntV(256)>>>>)>>>>)>>>>)}
InterfModuleChoices ==
    {Absent,
     Dict(<<<<"interferometer", Dict(<<<<"time_average_sec", IntV(8)>>>>)>>,
            <<"sky",
              Dict(<<<<"oskar_sky_model",
                      Dict(<<<<"filter",
                              Dict(<<<<"radius_outer_deg", IntV(30)>>>>)>>>>)>>>>)>>>>)}

\* a dict of the named parts that are present
Present(pairs) == Dict(SelectSeq(pairs, LAMBDA p : p[2] # Absent))

DefaultsOf(general, simulator, observation, telescope, beam_module, interf_module) ==
    Present(<<<<"General", general>>, <<"simulator", simulator>>,
              <<"observation", observation>>, <<"telescope", telescope>>,
              <<"beam_pattern_module", beam_module>>,
              <<"interferometer_module", interf_module>>>>)

PcOf(ra, gain, phase) ==
    Present(<<<<"id", Text("pc1")>>, <<"ra_deg", ra>>, <<"dec_deg", IntV(0 - 27)>>,
              <<"start_time_utc", Text("t0")>>, <<"gain_error_std", gain>>,
              <<"phase_error_std", phase>>>>).d

PlainPc == PcOf(IntV(0), Absent, Absent)
PlainRoot == Path(TRUE, <<"w">>)
PlainTelDir == Path(FALSE, <<"telescopes", "mwa">>)
PlainRunDir == Path(FALSE, <<"out", "run1">>)

\* telescope directories outside the output tree /w/out
TelDirs ==
    {Path(FALSE, <<"telescopes", "mwa">>), Path(FALSE, <<".", "telescopes", "mwa">>),
     Path(FALSE, <<"..", "shared", "mwa">>), Path(TRUE, <<"data", "mwa">>),
     Path(FALSE, <<"lnk", "mwa">>), Path(FALSE, <<"telescopes", "..", "mwa">>)}

\* run directories, given relative to the working directory or absolute
RunDirs ==
    {Path(FALSE, <<"out", "run1">>), Path(FALSE, <<"out", "a", "run1">>),
     Path(TRUE, <<"w", "out", "run1">>), Path(TRUE, <<"scratch", "out", "run1">>),
     Path(FALSE, <<"..", "w2", "out", "run1">>), Path(FALSE, <<"lnk", "out", "run1">>)}

\* what the output section of the settings may name
OutputChoices ==
    {Present(<<<<"interf_ms_base_filename", ms>>, <<"beam_root_path_base", root>>>>).d :
        ms \in {Absent, Text("obs.ms")}, root \in {Absent, Text("beams")}}

\* module subtrees with a section named like a shared section
BeamModuleWithShared ==
    Dict(<<<<"simulator", Dict(<<<<"max_sources_per_chunk", IntV(10)>>>>)>>,
           <<"beam_pattern", Dict(<<<<"coordinate_frame", Text("Horizon")>>>>)>>>>)
InterfModuleWithShared ==
    Dict(<<<<"simulator", Dict(<<<<"keep_log_file", BoolV(FALSE)>>>>)>>,
           <<"interferometer", Dict(<<<<"time_average_sec", IntV(8)>>>>)>>>>)

\* telescope sections with few fields or none; the last has a scalar where
\* the compilers expect a subsection
SparseTelescopes ==
    {Dict(<<>>),
     Dict(<<<<"aperture_array", Dict(<<>>)>>>>),
     Dict(<<<<"aperture_array",
             Dict(<<<<"array_pattern", Dict(<<<<"element", Dict(<<>>)>>>>)>>>>)>>>>),
     Dict(<<<<"aperture_array", Text("none")>>>>)}

\* The arguments of the compilers.  Six families of inputs: the defaults
\* vary; the phase-centre record and the error flag vary; the paths vary;
\* the output section varies; a module names a shared section; the
\* sections of the defaults are empty or nearly so.
CompilerInputs ==
    \/ /\ \E general \in GeneralChoices, simulator \in SimulatorChoices,
             observation \in ObservationChoices, telescope \in TelescopeChoices,
             beam_module \in BeamModuleChoices, interf_module \in InterfModuleChoices :
             defaults_at_load = DefaultsOf(general, simulator, observation, telescope,
                                           beam_module, interf_module)
       /\ current_pc_config = PlainPc
       /\ include_telescope_errors = FALSE
       /\ oskar_input_directory = PlainTelDir
       /\ current_run_specific_output_dir = PlainRunDir
       /\ global_output_config = <<>>
    \/ /\ \E telescope \in TelescopeChoices :
             defaults_at_load = DefaultsOf(Absent, Absent, Absent, telescope, Absent, Absent)
       /\ \E ra \in {IntV(0), Absent}, gain \in {Absent, NoneV, Text("0.05")},
             phase \in {Absent, Text("1.5")} :
             current_pc_config = PcOf(ra, gain, phase)
       /\ include_telescope_errors \in BOOLEAN
       /\ oskar_input_directory = PlainTelDir
       /\ current_run_specific_output_dir = PlainRunDir
       /\ global_output_config = <<>>
    \/ /\ defaults_at_load = Dict(<<>>)
       /\ current_pc_config = PlainPc
       /\ include_telescope_errors = FALSE
       /\ oskar_input_directory \in TelDirs
       /\ current_run_specific_output_dir \in RunDirs
       /\ global_output_config = <<>>
    \/ /\ defaults_at_load = Dict(<<>>)
       /\ current_pc_config = PlainPc
       /\ include_telescope_errors = FALSE
       /\ oskar_input_directory = PlainTelDir
       /\ current_run_specific_output_dir = PlainRunDir
       /\ global_output_config \in OutputChoices
    \/ /\ \E simulator \in SimulatorChoices, observation \in ObservationChoices :
             defaults_at_load = DefaultsOf(Absent, simulator, observation, Absent,
                                           BeamModuleWithShared, InterfModuleWithShared)
       /\ current_pc_config = PlainPc
       /\ include_telescope_errors = FALSE
       /\ oskar_input_directory = PlainTelDir
       /\ current_run_specific_output_dir = PlainRunDir
       /\ global_output_config = <<>>
    \/ /\ \E general \in {Absent, Dict(<<>>)}, telescope \in SparseTelescopes,
             beam_module \in {Dict(<<>>), Dict(<<<<"beam_pattern", Dict(<<>>)>>>>)},
             interf_module \in {Dict(<<>>), Dict(<<<<"sky", Dict(<<>>)>>>>)} :
             defaults_at_load = DefaultsOf(general, Dict(<<>>), Dict(<<>>), telescope,
                                           beam_module, interf_module)
       /\ current_pc_config = PlainPc
       /\ include_telescope_errors = FALSE
       /\ oskar_input_directory = PlainTelDir
       /\ current_run_specific_output_dir = PlainRunDir
       /\ global_output_config = <<>>

InitCompile ==
    /\ RunnerIdle
    /\ mpc = "off"
    /\ run_beam_sim = FALSE
    /\ run_interf_sim = FALSE
    /\ run_hyperdrive = FALSE
    /\ dry_run = FALSE
    /\ hyperdrive_cfg = "dict"
    /\ nTel = 0 /\ nSky = 0 /\ nPc = 0
    /\ bad_pc = 0 /\ bad_sky = 0
    /\ telescope_configs = <<>>
    /\ sky_model_configs = <<>>
    /\ phase_centre_configs = <<>>
    /\ images_folder_pattern = DefaultFolderPattern
    /\ tel = 0 /\ sky = 0 /\ pcIdx = 0
    /\ run_counter = 0
    /\ combos = <<>>
    /\ folders = <<>>
    /\ attempted = <<>>
    /\ beamFailed = FALSE
    /\ WriterIdle
    /\ LaunchIdle
    /\ cpc = "ready"
    /\ CompilerInputs
    /\ heap = ToHeap(<<>>, defaults_at_load).h
    /\ oskar_ini_defaults = ToHeap(<<>>, defaults_at_load).v
    /\ project_root_path = PlainRoot
    /\ trees = <<>>
    /\ compile_exc = "none"
    /\ steps = 0

\* A call of a compiler: the tree starts as a fresh empty dict, the
\* statements run, and the tree is returned unless a statement raised.
Compile(k, program) ==
    /\ cpc = "ready"
    /\ steps < MaxSteps
    /\ LET root == Len(heap) + 1
           st == Run([h |-> Append(heap, <<>>), exc |-> "none"], root, program)
       IN  /\ heap' = st.h
           /\ compile_exc' = st.exc
           /\ trees' = IF st.exc = "none"
                       THEN Append(trees, [kind |-> k, root |-> root,
                                           held |-> DeepValue(st.h, Ref(root))])
                       ELSE trees
    /\ steps' = steps + 1
    /\ UNCHANGED <<cpc, oskar_ini_defaults, defaults_at_load, current_pc_config,
                   global_output_config, project_root_path, oskar_input_directory,
                   current_run_specific_output_dir>>
    /\ UNCHANGED <<runnerVars, sweepVars, writerVars, launchVars>>

\* Lines 456-614.
CompileBeam == Compile("beam", BeamProgram)

\* Lines 617-778.
CompileInterf == Compile("interf", InterfProgram)

\* the value found by following the keys of path from v (Missing if none)
RECURSIVE Follow(_, _, _)
Follow(h, v, path) ==
    IF path = <<>> THEN v
    ELSE IF v.t # "ref" THEN Missing
    ELSE Follow(h, Lookup(h[v.n], Head(path)), Tail(path))

\* where the holder of a returned tree may write
MutationPaths ==
    {<<>>, <<"observation">>, <<"observation", "length">>, <<"simulator", "extra">>,
     ElementPath}

\* The holder of a returned tree writes into one of its dicts.
Mutate ==
    /\ cpc = "ready"
    /\ steps < MaxSteps
    /\ \E i \in DOMAIN trees, path \in MutationPaths :
        LET target == Follow(heap, Ref(trees[i].root), path)
            h == DictSet(heap, target.n, "mutated", Text("x"))
        IN  /\ target.t = "ref"
            /\ heap' = h
            /\ trees' = [trees EXCEPT ![i].held = DeepValue(h, Ref(trees[i].root))]
    /\ steps' = steps + 1
    /\ UNCHANGED <<cpc, oskar_ini_defaults, defaults_at_load, current_pc_config,
                   global_output_config, project_root_path, oskar_input_directory,
                   current_run_specific_output_dir, compile_exc>>
    /\ UNCHANGED <<runnerVars, sweepVars, writerVars, launchVars>>

NextCompile ==
    \/ CompileBeam
    \/ CompileInterf
    \/ Mutate

SpecCompile == InitCompile /\ [][NextCompile]_vars

\* ----------------------------------------------------------- vocabulary
InLog(tag) == Entry(tag) \in Range(log)
OpDone(name) == \E i \in DOMAIN ops : ops[i].op = name
OpOk(name) == \E i \in DOMAIN ops : ops[i].op = name /\ ops[i].ok
OpFailed(name) == \E i \in DOMAIN ops : ops[i].op = name /\ ~ops[i].ok
Printed(msg) == msg \in Range(console)
ErrorMarkers == {"ERROR", "ERROR_FAILED", "FATAL_ERROR", "UNEXPECTED_FATAL_ERROR"}
ErrorMarkerInLog == \E tag \in ErrorMarkers : InLog(tag)
\* position of an entry of this invocation in run.log (0: absent)
Pos(tag) == IF InLog(tag) THEN CHOOSE i \in DOMAIN log : log[i] = Entry(tag) ELSE 0

\* ------------------------------------------------------------------- C1
\* C1: on every exit path of a runner that returns (input missing, dry run,
\* exit status zero or non-zero, executable not found, unexpected exception),
\* the closing append is attempted exactly once, as the last log operation of
\* the invocation and before the result reaches the caller; this holds also
\* after a failed open or flush, and a failing closing append neither raises
\* nor changes the returned value.  (The exception of C8 leaves run_calibrate
\* before its try statement: that call does not return and is no case here.)
C1_ClosingAppendOnEveryExit ==
    /\ (result \in {"True", "False"}) => pc = "returned"
    /\ (pc = "returned") =>
          /\ ops # <<>>
          /\ ops[Len(ops)].op = "final_append"
          /\ Cardinality({i \in DOMAIN ops : ops[i].op = "final_append"}) = 1
          /\ result = retval
          /\ result \in {"True", "False"}
          /\ ops[Len(ops)].ok => (log # <<>> /\ log[Len(log)] = Entry("concluded"))

\* The log could not be opened, the closing append was attempted all the same
\* and failed too, and the runner returned False.
C1_Witness ==
    /\ pc = "returned"
    /\ OpFailed("open")
    /\ OpFailed("final_append")
    /\ result = "False"

\* ------------------------------------------------------------------- C2
\* C2: run.log is append-only.  Every step of every runner leaves the old
\* content of run.log as a prefix of the new content, and what it adds carries
\* the number of the running invocation; so the entries of successive
\* invocations lie in the log in invocation order, never interleaved.
LogInInvocationOrder ==
    \A i, j \in DOMAIN log : (i < j) => (log[i][1] <= log[j][1] /\ log[j][1] <= inv)

C2_RunLogAppendOnly ==
    /\ []LogInInvocationOrder
    /\ [][/\ IsPrefix(log, log')
          /\ \A i \in (Len(log) + 1)..Len(log') : log'[i][1] = inv']_vars

\* A calibration run after a simulation run on the same run directory: both
\* have left entries in the log.
C2_Witness ==
    /\ inv = 2
    /\ pc = "returned"
    /\ kind = "calib"
    /\ \E i, j \in DOMAIN log : log[i] = <<1, "ini">> /\ log[j][1] = 2

\* ------------------------------------------------------------------- C3
\* C3 (first clause): when the external program is launched, the preamble of
\* this invocation (time, working directory, config-file path, command line)
\* is in run.log.
ClaimedPreamble == {"time", "cwd", "ini", "cmd"}

C3_PreambleInLogBeforeLaunch ==
    (launched # "none") =>
        \A tag \in ClaimedPreamble : Entry(tag) \in Range(logAtLaunch)

\* C3 (second clause): the preamble is in run.log after every invocation
\* that returned failure.
C3_PreambleInLogOnFailure ==
    (pc = "returned" /\ result = "False") =>
        \A tag \in ClaimedPreamble : InLog(tag)

\* ------------------------------------------------------------------- C4
\* C4 as stated: a simulation runner called with a config file that does not
\* exist returns failure, never launches, and leaves an entry with an error
\* marker in run.log.
C4_MissingInputAlwaysLogged ==
    (kind \in Sims /\ ~ini_exists /\ pc \notin {"idle", "build"}) =>
        /\ launched = "none"
        /\ (pc = "returned") => (result = "False" /\ ErrorMarkerInLog)

\* C4 as amended: it returns failure and never launches; the missing-input
\* ERROR entry is in run.log whenever the log was opened and flushed, and
\* otherwise the handler has tried to append its error entry, which is in
\* run.log whenever that append succeeded.
C4_MissingInputFails ==
    (kind \in Sims /\ ~ini_exists /\ pc \notin {"idle", "build"}) =>
        /\ launched = "none"
        /\ ~OpDone("launch")
        /\ (pc = "returned") =>
              /\ result = "False"
              /\ (OpOk("open") /\ OpOk("close")) =>
                    (InLog("ERROR") /\ Printed("error_ini_not_found"))
              /\ ~(OpOk("open") /\ OpOk("close")) => OpDone("err_append")
              /\ OpOk("err_append") =>
                    (InLog("UNEXPECTED_FATAL_ERROR") \/ InLog("FATAL_ERROR"))

C4_Witness ==
    /\ pc = "returned"
    /\ kind \in Sims
    /\ ~ini_exists
    /\ is_dry_run
    /\ InLog("ERROR")
    /\ result = "False"
\* ------------------------------------------------------------------- C5
\* C5: a runner called in dry-run mode with an existing config file returns
\* success, leaves a [DRY RUN] entry in run.log and launches nothing; and a
\* sweep whose dry-run flag is set launches no external process at all.
C5_DryRunSucceedsWithoutLaunch ==
    /\ (is_dry_run /\ ini_exists /\ pc \in {"returned", "raised"}) =>
          (result = "True" /\ InLog("DRY_RUN") /\ launched = "none")
    /\ dry_run => launches = 0

\* What does hold of a dry run: nothing is ever launched.
DryRunNeverLaunches ==
    /\ (is_dry_run /\ pc \notin {"idle", "build"}) => (launched = "none" /\ ~OpDone("launch"))
    /\ dry_run => launches = 0

\* ------------------------------------------------------------------- C6
\* C6 as stated: a simulation runner returns True exactly when (dry run and
\* the config file exists) or (the process was launched and exited with 0).
LaunchedAndExitedZero == launched = "exit0"
DryRunOnExistingInput == is_dry_run /\ ini_exists

LaunchImpossible == launched \in {"FileNotFoundError", "OSError"}
FailureEntryAfterPreamble ==
    \E tag \in {"FATAL_ERROR", "UNEXPECTED_FATAL_ERROR"} :
        /\ InLog(tag)
        /\ InLog("cmd")
        /\ Pos("cmd") < Pos(tag)

C7_LaunchFailureAlwaysRecorded ==
    (pc = "returned" /\ LaunchImpossible) =>
        /\ result = "False"
        /\ Printed("error_executable_not_found") \/ Printed("error_unexpected")
        /\ FailureEntryAfterPreamble

\* C7 as amended: the runner returns failure, prints the error and tries to
\* append the error entry.  An executable that is not found (with the log
\* handle closed cleanly) takes the executable-not-found branch; its FATAL
\* ERROR entry follows the preamble in run.log whenever the append succeeded.
\* Any other launch failure, or a failing close, takes the unexpected-error
\* branch, whose entry is in run.log whenever its append succeeded.
C7_LaunchFailureReported ==
    (pc = "returned" /\ LaunchImpossible) =>
        /\ result = "False"
        /\ OpDone("err_append")
        /\ (launched = "FileNotFoundError" /\ OpOk("close")) =>
              /\ Printed("error_executable_not_found")
              /\ OpOk("err_append") =>
                    (InLog("FATAL_ERROR") /\ InLog("cmd") /\ Pos("cmd") < Pos("FATAL_ERROR"))
        /\ (launched = "OSError" \/ OpFailed("close")) =>
              /\ Printed("error_unexpected")
              /\ OpOk("err_append") => InLog("UNEXPECTED_FATAL_ERROR")

C7_Witness ==
    /\ pc = "returned"
    /\ launched = "FileNotFoundError"
    /\ Printed("error_executable_not_found")
    /\ InLog("FATAL_ERROR")
    /\ InLog("cmd")
    /\ result = "False"

\* ------------------------------------------------------------------- C8
\* C8: no runner ever lets an exception reach its caller.
C8_RunnerNeverRaises == result # "raised" /\ pc # "raised"

\* What does hold: once the try statement is entered the runner returns
\* False on every failure of the launch or of a log operation.
FailuresInsideTryReturnFalse ==
    (pc = "returned" /\ (LaunchImpossible \/ OpFailed("open") \/ OpFailed("close"))) =>
        result = "False"

\* ------------------------------------------------------------- C9, C10
EnabledStages ==
    (IF run_beam_sim THEN {"beam"} ELSE {})
        \cup (IF run_interf_sim THEN {"interf"} ELSE {})
        \cup (IF run_hyperdrive THEN {"calib"} ELSE {})

AllStages ==
    {<<t, s, p, k>> : t \in 1..nTel, s \in 1..nSky, p \in 1..nPc, k \in EnabledStages}

SweepOver == mpc \in {"done", "aborted"}

\* C9: once a beam stage has returned failure, the sweep still attempts the
\* interferometer and calibration stages of that combination and every stage
\* of every later combination (the stages before it were attempted already).
\* Stated for the sweeps in which no file operation fails: the settings
\* document alone decides them.
C9_SweepGoesOnAfterBeamFailure ==
    (SweepOver /\ beamFailed /\ faults = 0) => AllStages \subseteq Range(attempted)

\* C10: with three non-empty axes no error aborts the sweep: when main is
\* over, it ended by leaving its loops and every enabled stage of every
\* combination has been attempted.  Stated for the sweeps in which no file
\* operation fails: the settings document alone decides them.
C10_NoErrorAbortsSweep ==
    (SweepOver /\ nTel > 0 /\ nSky > 0 /\ nPc > 0 /\ faults = 0) =>
        (mpc = "done" /\ AllStages \subseteq Range(attempted))

\* ------------------------------------------------------------------ C11
\* The T*S*P combinations in the order of the three nested for statements:
\* telescope outermost, then sky model, then phase centre.
Cartesian(T, S, P) ==
    [i \in 1..(T * S * P) |->
        <<((i - 1) \div (S * P)) + 1, (((i - 1) \div P) % S) + 1, ((i - 1) % P) + 1>>]

\* C11: for three non-empty axes of sizes T, S, P, when main is over it has
\* processed exactly the T*S*P combinations, each once, telescope outermost,
\* then sky model, then phase centre.  Stated for the sweeps in which no file
\* operation fails.
C11_AllCombinationsOnceInOrder ==
    (SweepOver /\ nTel > 0 /\ nSky > 0 /\ nPc > 0 /\ faults = 0) =>
        /\ combos = Cartesian(nTel, nSky, nPc)
        /\ run_counter = nTel * nSky * nPc

\* What does hold: the combinations begun so far are an initial part of the
\* nested order (none skipped, none repeated, none out of order), and a main
\* that left its loops has begun them all.
CombinationsInNestedOrder ==
    /\ IsPrefix(combos, Cartesian(nTel, nSky, nPc))
    /\ run_counter = Len(combos)
    /\ (mpc = "done" /\ nTel > 0 /\ nSky > 0 /\ nPc > 0) =>
          combos = Cartesian(nTel, nSky, nPc)

\* ------------------------------------------------------------------ C12
PairwiseDistinct(names) ==
    \A i, j \in DOMAIN names : (i # j) => names[i] # names[j]

\* C12: given pairwise distinct telescope names, sky-model file names and
\* phase-centre ids, no two combinations of one sweep get the same output
\* directory name.
C12_DistinctDirectoryNames ==
    (/\ PairwiseDistinct(telescope_configs)
     /\ PairwiseDistinct(sky_model_configs)
     /\ PairwiseDistinct(phase_centre_configs)) => PairwiseDistinct(folders)

\* What does hold: two combinations that differ only in their phase centre,
\* or only in their telescope, have different directory names (a template
\* puts each of the two fields in once and everything else is the same).
DistinctWhenOneNameDiffers ==
    \A i, j \in DOMAIN folders :
        (/\ i # j
         /\ combos[i][2] = combos[j][2]
         /\ combos[i][1] = combos[j][1] \/ combos[i][3] = combos[j][3]) =>
            folders[i] # folders[j]

\* ------------------------------------------------------------------ C13
StageRank(k) == CASE k = "beam" -> 1 [] k = "interf" -> 2 [] k = "calib" -> 3

\* position of a stage in the whole sweep
StagePosition(a) == (((a[1] - 1) * nSky + (a[2] - 1)) * nPc + (a[3] - 1)) * 3 + StageRank(a[4])

StagesInOrder ==
    \A i, j \in DOMAIN attempted :
        (i < j) => StagePosition(attempted[i]) < StagePosition(attempted[j])

RunnerAtRest ==
    /\ pc \in {"idle", "returned"}
    /\ (pc = "returned") => (ops # <<>> /\ ops[Len(ops)].op = "final_append")

\* C13: execution is strictly sequential.  The stages are begun in the order
\* beam, interferometer, calibration within a combination and combination
\* after combination; a stage, and the iteration of the next combination, is
\* begun only when no runner is busy: the runner of the stage before has
\* returned, its closing log append being its last log operation.
C13_StrictlySequential ==
    /\ []StagesInOrder
    /\ [][(attempted' # attempted \/ combos' # combos) => RunnerAtRest]_vars

\* A sweep that ran all three stages of two combinations.
C13_Witness ==
    /\ mpc = "done"
    /\ Len(attempted) = 6
    /\ attempted[3] = <<1, 1, 1, "calib">>
    /\ attempted[4][4] = "beam"
    /\ launches > 0

\* --------------------------------------------------- C15, C16, C17
\* The leaves of a dict: the path of keys that leads to each value that is
\* not a dict, with that value.
RECURSIVE Leaves(_, _)
Leaves(items, path) ==
    UNION {IF items[i].value.t = "dict"
           THEN Leaves(items[i].value.d, Append(path, items[i].key))
           ELSE {[path |-> Append(path, items[i].key), value |-> items[i].value]}
           : i \in DOMAIN items}

\* k1/k2/.../kn
RECURSIVE JoinPath(_)
JoinPath(path) ==
    IF Len(path) = 1 THEN path[1] ELSE path[1] \o <<"/">> \o JoinPath(Tail(path))

FlatKeys(flat) == {flat[i].key : i \in DOMAIN flat}
FlatValue(flat, k) == (CHOOSE i \in DOMAIN flat : flat[i].key = k)
FlatGet(flat, k) == flat[FlatValue(flat, k)].value

\* the leaves of the section the flattener was last called with
FlattenedLeaves == Leaves(ini_data_dict[flat_arg].value.d, <<>>)

\* the leaves of the sections of the tree given to the writer
SectionLeaves(i) == Leaves(ini_data_dict[i].value.d, <<>>)

\* the section of the written file that belongs to item i of the tree
FileSection(i) ==
    CHOOSE j \in DOMAIN ini_file : ini_file[j].section = ini_data_dict[i].key

\* the value a string of decimal digits stands for
RECURSIVE DecimalValue(_)
DecimalValue(str) ==
    IF str = <<>> THEN 0
    ELSE 10 * DecimalValue(SubSeq(str, 1, Len(str) - 1))
            + ((CHOOSE d \in DOMAIN DecimalDigits : DecimalDigits[d] = str[Len(str)]) - 1)

\* the flat keys of the leaves that are not None
KeysOfScalarLeaves(leaves) ==
    {JoinPath(leaf.path) : leaf \in {l \in leaves : l.value.t # "none"}}

\* C15: a None value at any depth of the flattened tree gives no flat key
\* (its path is a flat key only if it is also the flat key of a leaf that
\* is not None), every flat key is the path of a leaf that is not None, and
\* so no key of the flattened output (or of the written file) stands for
\* None.
C15_NoneIsDropped ==
    /\ (flat_arg # 0) =>
          /\ \A leaf \in FlattenedLeaves :
                (/\ leaf.value.t = "none"
                 /\ JoinPath(leaf.path) \notin KeysOfScalarLeaves(FlattenedLeaves)) =>
                    JoinPath(leaf.path) \notin FlatKeys(flat_dict)
          /\ \A k \in FlatKeys(flat_dict) :
                \E leaf \in FlattenedLeaves :
                    leaf.value.t # "none" /\ JoinPath(leaf.path) = k
    /\ ini_written =>
          \A i \in DOMAIN ini_data_dict : \A leaf \in
                (IF ini_data_dict[i].value.t = "dict" THEN SectionLeaves(i) ELSE {}) :
                (/\ leaf.value.t = "none"
                 /\ JoinPath(leaf.path) \notin KeysOfScalarLeaves(SectionLeaves(i))) =>
                    JoinPath(leaf.path) \notin FlatKeys(ini_file[FileSection(i)].options)

\* A None two levels down, beside a leaf that does give a key.
C15_Witness ==
    /\ flat_arg # 0
    /\ flat_dict # <<>>
    /\ \E leaf \in FlattenedLeaves : leaf.value.t = "none" /\ Len(leaf.path) = 2

\* text is what the flattener writes for the scalar v
SerializedAs(v, text) ==
    CASE v.t = "bool" ->
            text = (IF v.b THEN <<"t", "r", "u", "e">> ELSE <<"f", "a", "l", "s", "e">>)
      [] v.t = "int" ->
            /\ text # <<>>
            /\ Range(text) \subseteq Range(DecimalDigits)
            /\ DecimalValue(text) = v.n
      [] v.t = "str" -> text = v.s
      [] OTHER -> FALSE

\* C16: every bool leaf, at any depth, is serialized as exactly "true" or
\* "false", every int leaf as its decimal digits and every str leaf as
\* itself: the flat key of a leaf holds the serialized value of that leaf
\* (of one of the leaves with that flat key, when several have it).
C16_BoolLowercaseOthersStr ==
    (flat_arg # 0) =>
        \A leaf \in FlattenedLeaves :
            LET k == JoinPath(leaf.path)
            IN  (leaf.value.t # "none") =>
                  /\ k \in FlatKeys(flat_dict)
                  /\ \E same \in FlattenedLeaves :
                        /\ JoinPath(same.path) = k
                        /\ SerializedAs(same.value, FlatGet(flat_dict, k))

\* A True two levels down beside an int.
C16_Witness ==
    /\ flat_arg # 0
    /\ \E leaf \in FlattenedLeaves :
          leaf.value = BoolV(TRUE) /\ Len(leaf.path) = 2
    /\ \E leaf \in FlattenedLeaves : leaf.value.t = "int"
    /\ \E i \in DOMAIN flat_dict : flat_dict[i].value = <<"t", "r", "u", "e">>

\* C17: every scalar leaf reached through the keys k1, ..., kn of a section
\* gets the flat key k1/.../kn, each key in the letter case of the tree, and
\* the written file holds that same key in that section.
C17_PathKeysKeepCase ==
    /\ (flat_arg # 0) =>
          \A leaf \in FlattenedLeaves :
              (leaf.value.t # "none") => JoinPath(leaf.path) \in FlatKeys(flat_dict)
    /\ ini_written =>
          \A i \in DOMAIN ini_data_dict :
              (ini_data_dict[i].value.t = "dict") =>
                  /\ \E j \in DOMAIN ini_file : ini_file[j].section = ini_data_dict[i].key
                  /\ \A leaf \in SectionLeaves(i) :
                        (leaf.value.t # "none") =>
                            JoinPath(leaf.path) \in FlatKeys(ini_file[FileSection(i)].options)

\* A written file with a section that holds a two-key path and two keys at
\* its top that differ only in letter case.
C17_Witness ==
    /\ ini_written
    /\ \E j \in DOMAIN ini_file :
          /\ <<"K", "b">> \in FlatKeys(ini_file[j].options)
          /\ <<"k", "b", "/", "K", "b">> \in FlatKeys(ini_file[j].options)

\* the defaults and every returned tree, read now, against what they were
\* when loaded and when last written by their holder
DefaultsUnchanged == DeepValue(heap, oskar_ini_defaults) = defaults_at_load

TreesUnchanged ==
    \A i \in DOMAIN trees : DeepValue(heap, Ref(trees[i].root)) = trees[i].held

\* the dicts of the i-th returned tree
TreeDicts(i) == Reachable(heap, Ref(trees[i].root))

\* C14: after any calls of the two compilers and any writes into the trees
\* they returned, the defaults equal their value at load and every returned
\* tree equals what its holder last made of it; no tree shares a dict with
\* the defaults or with another tree.
C14_DefaultIsolation ==
    /\ DefaultsUnchanged
    /\ TreesUnchanged
    /\ \A i \in DOMAIN trees :
          /\ TreeDicts(i) \cap Reachable(heap, oskar_ini_defaults) = {}
          /\ \A j \in DOMAIN trees : (i # j) => TreeDicts(i) \cap TreeDicts(j) = {}

\* The part that holds: when the field the compilers read back from the
\* defaults after the copy holds no dict, nothing is shared.
IsolationWhenFieldsAreScalars ==
    (Follow(heap, oskar_ini_defaults, <<"observation", "length">>).t # "ref") =>
        C14_DefaultIsolation

\* the value of an error-time field of the i-th returned tree
ErrorField(i, name) == Follow(heap, Ref(trees[i].root), Append(ElementPath, name))

\* the magnitude the phase-centre record gives, "0.0" when it has no such key
PcMagnitude(name) ==
    IF HasKey(current_pc_config, name) THEN Lookup(current_pc_config, name) ELSE ZeroText

\* C18: with include_telescope_errors off, every tree returned by either
\* compiler holds the text "0.0" in each of the four error-time fields,
\* whatever the phase-centre record and the defaults hold for them.
C18_FlagOffGivesZero ==
    (~include_telescope_errors) =>
        \A i \in DOMAIN trees :
            \A f \in {"x_gain_error_time", "y_gain_error_time",
                      "x_phase_error_time_deg", "y_phase_error_time_deg"} :
                ErrorField(i, f) = ZeroText

\* Flag off, a record that gives both magnitudes, defaults that give other
\* values for the fields, and a tree from each compiler.
C18_Witness ==
    /\ ~include_telescope_errors
    /\ Lookup(current_pc_config, "gain_error_std") = Text("0.05")
    /\ Lookup(current_pc_config, "phase_error_std") = Text("1.5")
    /\ Follow(heap, oskar_ini_defaults, Append(ElementPath, "x_gain_error_time")) = Text("0.3")
    /\ \E i, j \in DOMAIN trees :
          /\ trees[i].kind = "beam" /\ trees[j].kind = "interf"
          /\ ErrorField(i, "x_gain_error_time") = ZeroText
          /\ ErrorField(j, "y_phase_error_time_deg") = ZeroText

\* C19: with include_telescope_errors on, the gain fields hold the record's
\* gain_error_std and the phase fields its phase_error_std, "0.0" standing
\* for a key the record lacks; in every tree, flag on or off, the x and y
\* gain fields are equal and the x and y phase fields are equal.
C19_FlagOnTakesRecord ==
    \A i \in DOMAIN trees :
        /\ ErrorField(i, "x_gain_error_time") = ErrorField(i, "y_gain_error_time")
        /\ ErrorField(i, "x_phase_error_time_deg") = ErrorField(i, "y_phase_error_time_deg")
        /\ include_telescope_errors =>
              /\ ErrorField(i, "x_gain_error_time") = PcMagnitude("gain_error_std")
              /\ ErrorField(i, "x_phase_error_time_deg") = PcMagnitude("phase_error_std")

\* Flag on, a record that gives the gain magnitude and lacks the phase
\* magnitude, and a tree from each compiler.
C19_Witness ==
    /\ include_telescope_errors
    /\ Lookup(current_pc_config, "gain_error_std") = Text("0.05")
    /\ ~HasKey(current_pc_config, "phase_error_std")
    /\ \E i, j \in DOMAIN trees :
          /\ trees[i].kind = "beam" /\ trees[j].kind = "interf"
          /\ ErrorField(i, "y_gain_error_time") = Text("0.05")
          /\ ErrorField(j, "y_phase_error_time_deg") = ZeroText

\* the pieces of a path text between its "/" separators
RECURSIVE SplitPath(_)
SplitPath(text) ==
    IF \A k \in DOMAIN text : text[k] # "/" THEN <<text>>
    ELSE LET k == CHOOSE k \in DOMAIN text :
                      text[k] = "/" /\ \A j \in 1..(k - 1) : text[j] # "/"
         IN  <<SubSeq(text, 1, k - 1)>> \o SplitPath(SubSeq(text, k + 1, Len(text)))

\* a relative path of ".." segments followed by directory names only
OnlyUpThenDown(pieces) ==
    /\ \A k \in DOMAIN pieces : Len(pieces[k]) = 1 /\ pieces[k][1] # "."
    /\ \A k \in DOMAIN pieces :
          (pieces[k][1] = "..") => \A j \in 1..(k - 1) : pieces[j][1] = ".."

\* the run directory as an absolute path, taken from the working directory
\* of the process
RunDirAbsolute ==
    Collapse(<<>>, PathJoin(project_root_path, current_run_specific_output_dir).segs)

\* a path text of a tree joined onto the run directory and normalized
JoinedBack(text) ==
    Collapse(<<>>, RunDirAbsolute \o [k \in DOMAIN SplitPath(text) |-> SplitPath(text)[k][1]])

\* C20: in every returned tree telescope.input_directory is a relative path
\* of ".." segments followed by directory names, and joining it onto the
\* absolute run directory and normalizing gives the resolved absolute path
\* of the telescope directory, for run directories given relative to the
\* working directory as for absolute ones; the sky-model file of an
\* interferometer tree round-trips the same way.
C20_PathPortability ==
    \A i \in DOMAIN trees :
        LET dir == Follow(heap, Ref(trees[i].root), <<"telescope", "input_directory">>)
            file == Follow(heap, Ref(trees[i].root), <<"sky", "oskar_sky_model", "file">>)
        IN  /\ dir.t = "str"
            /\ OnlyUpThenDown(SplitPath(dir.s))
            /\ JoinedBack(dir.s) =
                   resolve(PathJoin(project_root_path, oskar_input_directory)).segs
            /\ (trees[i].kind = "interf") =>
                   /\ file.t = "str"
                   /\ OnlyUpThenDown(SplitPath(file.s))
                   /\ JoinedBack(file.s) =
                          resolve(PathJoin(PathJoin(project_root_path, sky_models_base_dir),
                                           sky_filename)).segs

\* A run directory given relative to the working directory, a telescope
\* directory behind the symbolic link, and a tree whose input_directory
\* climbs to the root and descends to the link's target.
C20_Witness ==
    /\ current_run_specific_output_dir = Path(FALSE, <<"out", "a", "run1">>)
    /\ oskar_input_directory = Path(FALSE, <<"lnk", "mwa">>)
    /\ \E i \in DOMAIN trees :
          Follow(heap, Ref(trees[i].root), <<"telescope", "input_directory">>) =
              StrV(<<"..", "/", "..", "/", "..", "/", "..", "/", "data", "/", "mwa">>)

\* ------------------------------------------------------------------ C21
\* an axis of the sweep is empty (a missing axis is read as the empty list)
DegenerateSweep == nTel = 0 \/ nSky = 0 \/ nPc = 0

\* C21: when one of the three axes is empty or missing, main creates no run
\* directory, writes no config file, appends nothing to any run.log, calls
\* no runner and launches no external process.
C21_DegenerateSweepProducesNothing ==
    DegenerateSweep =>
        /\ mpc \in {"start", "done"}
        /\ run_counter = 0
        /\ combos = <<>>
        /\ folders = <<>>
        /\ attempted = <<>>
        /\ ~ini_written
        /\ log = <<>> /\ buf = <<>> /\ ops = <<>>
        /\ inv = 0
        /\ launches = 0

\* main is over on a document with every stage enabled, two telescopes and
\* phase centres and no sky model.
C21_Witness ==
    /\ mpc = "done"
    /\ nTel = 2 /\ nSky = 0 /\ nPc = 2
    /\ run_beam_sim /\ run_interf_sim /\ run_hyperdrive
    /\ ~dry_run

\* ------------------------------------------------------------------ C22
\* the top-level entries of the tree given to the writer that are dicts, and
\* those that are not
MappingEntries == SelectSeq(ini_data_dict, LAMBDA it : it.value.t = "dict")
OtherEntries == SelectSeq(ini_data_dict, LAMBDA it : it.value.t # "dict")

\* the parser filled from the dict entries alone
MappingsAlone ==
    BuildConfig(MappingEntries, [sections |-> <<>>, warnings |-> <<>>, exc |-> "none"])

\* C22: a top-level entry whose value is no dict is skipped with a warning
\* and raises nothing: the writer ends as it does on the tree without such
\* entries (an exception comes only from a value the parser refuses in a
\* dict section or from opening the file), and the file written holds every
\* dict section, those before and after the skipped ones, in the order of
\* the tree, each with the flat key of every leaf that is not None.
C22_NonMappingSectionSkipped ==
    (wpc = "done" /\ OtherEntries # <<>>) =>
        /\ ini_exc \in {MappingsAlone.exc, "OSError"}
        /\ (MappingsAlone.exc # "none") => ini_exc = MappingsAlone.exc
        /\ (MappingsAlone.exc = "none") =>
              ini_warnings = [i \in DOMAIN OtherEntries |-> OtherEntries[i].key]
        /\ ini_written <=> (ini_exc = "none")
        /\ ini_written =>
              /\ Len(ini_file) = Len(MappingEntries)
              /\ \A j \in DOMAIN ini_file :
                    /\ ini_file[j].section = MappingEntries[j].key
                    /\ FlatKeys(ini_file[j].options) =
                          {JoinPath(leaf.path) :
                              leaf \in {l \in Leaves(MappingEntries[j].value.d, <<>>) :
                                           l.value.t # "none"}}

\* A written file for a tree whose first and last entries are dicts with
\* keys, and whose entry between them is a string.
C22_Witness ==
    /\ wpc = "done"
    /\ ini_written
    /\ Len(ini_data_dict) = 3
    /\ ini_data_dict[1].value.t = "dict"
    /\ ini_data_dict[2].value.t = "str"
    /\ ini_data_dict[3].value.t = "dict"
    /\ ini_warnings = <<ini_data_dict[2].key>>
    /\ Len(ini_file) = 2
    /\ ini_file[1].options # <<>> /\ ini_file[2].options # <<>>

\* ------------------------------- one combination of main, paths and names
\* os.getcwd() of the process main runs in
WorkingDirectory == PlainRoot

\* Line 814-816: base_output_directory, "simulation_outputs_generated" when
\* the settings document gives none.
DefaultBaseDir == Path(FALSE, <<"simulation_outputs_generated">>)

BaseDirs ==
    {DefaultBaseDir, Path(FALSE, <<"out">>), Path(TRUE, <<"scratch", "out">>),
     Path(FALSE, <<"..", "w2", "out">>)}

FolderNames == {"images_m_a_errors_off_p1", "images_m_a_errors_off_p2"}

\* the keys the executables section may hold
ExecutableNames ==
    {"oskar_sim_beam_pattern", "oskar_sim_beam_patter", "oskar_sim_interferometer",
     "hyperdrive"}

\* the path the settings document gives for an executable
OverridePath(name) == <<"/opt/bin/", name>>

\* executables_cfg.get(name, dflt)
GetExecutable(name, dflt) ==
    IF name \in DOMAIN executables_cfg THEN executables_cfg[name] ELSE <<dflt>>

\* Lines 894-896, 932-934, 945: the key each stage looks up.
ExecutableKey(k) ==
    CASE k = "beam" -> "oskar_sim_beam_patter"
      [] k = "interf" -> "oskar_sim_interferometer"
      [] k = "calib" -> "hyperdrive"

\* Lines 894-896, 932-934, 945: the name each stage falls back to.
ExecutableDefault(k) ==
    CASE k = "beam" -> "oskar_sim_beam_pattern"
      [] k = "interf" -> "oskar_sim_interferometer"
      [] k = "calib" -> "hyperdrive"

\* Lines 822-823: the INI file names when output_cfg gives none.
IniFilename(k) == IF k = "beam" THEN "beam.ini" ELSE "interf.ini"

\* str(path): the segments with "/" between them, "/" first when absolute
PathText(p) == IF p.abs THEN <<"/">> \o PathStr(p.segs) ELSE PathStr(p.segs)

\* the path a program makes of the text of an argument
ParsePath(text) ==
    IF Head(text) = "/"
    THEN Path(TRUE, [k \in DOMAIN SplitPath(Tail(text)) |-> SplitPath(Tail(text))[k][1]])
    ELSE Path(FALSE, [k \in DOMAIN SplitPath(text) |-> SplitPath(text)[k][1]])

\* the file a path denotes for a process whose working directory is cwd
FileAt(cwd, p) == abspath(cwd, p).segs

StageEnabled(k) ==
    CASE k = "beam" -> run_beam_sim
      [] k = "interf" -> run_interf_sim
      [] k = "calib" -> run_hyperdrive

\* position of a stage in the body of the loop (lines 876, 906, 943)
StageOrder(k) ==
    CASE k = "none" -> 0 [] k = "beam" -> 1 [] k = "interf" -> 2 [] k = "calib" -> 3

\* k is the next enabled stage after the one main is in
NextEnabledStage(k) ==
    /\ StageEnabled(k)
    /\ StageOrder(k) > StageOrder(stage)
    /\ \A j \in Runners :
          (StageEnabled(j) /\ StageOrder(j) > StageOrder(stage)) => StageOrder(j) >= StageOrder(k)

\* main has loaded the settings document and is at the head of an iteration
\* of its loops.
InitLaunch ==
    /\ RunnerIdle
    /\ mpc = "off"
    /\ run_beam_sim \in BOOLEAN
    /\ run_interf_sim \in BOOLEAN
    /\ run_hyperdrive \in BOOLEAN
    /\ dry_run \in BOOLEAN
    /\ hyperdrive_cfg = "dict"
    /\ nTel = 0 /\ nSky = 0 /\ nPc = 0
    /\ bad_pc = 0 /\ bad_sky = 0
    /\ telescope_configs = <<>>
    /\ sky_model_configs = <<>>
    /\ phase_centre_configs = <<>>
    /\ images_folder_pattern = DefaultFolderPattern
    /\ include_telescope_errors = FALSE
    /\ tel = 0 /\ sky = 0 /\ pcIdx = 0
    /\ run_counter = 0
    /\ combos = <<>>
    /\ folders = <<>>
    /\ attempted = <<>>
    /\ beamFailed = FALSE
    /\ WriterIdle
    /\ CompilerIdle
    /\ lpc = "start"
    /\ base_output_dir \in BaseDirs
    /\ \E given \in SUBSET ExecutableNames :
          executables_cfg = [name \in given |-> OverridePath(name)]
    /\ current_run_output_dir = NoPath
    /\ stage = "none"
    /\ ini_file_path = NoPath
    /\ written_file = <<>>
    /\ executable_path = <<>>
    /\ cwd_path = NoPath
    /\ command = <<>>
    /\ checked_file = <<>>
    /\ opened_file = <<>>

\* Lines 867-870: the run directory is the folder name under the base
\* output directory.
MakeRunDir ==
    /\ lpc = "start"
    /\ \E name \in FolderNames :
          current_run_output_dir' = PathJoin(base_output_dir, Path(FALSE, <<name>>))
    /\ lpc' = "dir"
    /\ UNCHANGED <<base_output_dir, executables_cfg, stage, ini_file_path, written_file,
                   executable_path, cwd_path, command, checked_file, opened_file>>
    /\ UNCHANGED <<runnerVars, sweepVars, writerVars, compilerVars>>

\* Lines 878-889 / 909-926: a simulation stage names its INI file under the
\* run directory and has the writer write it (open(output_path, "w") in the
\* working directory of main).  Line 943: the calibration stage has no file.
PrepareStage ==
    /\ lpc = "dir"
    /\ \E k \in Runners :
          /\ NextEnabledStage(k)
          /\ stage' = k
          /\ IF k \in Sims
             THEN LET path == PathJoin(current_run_output_dir, Path(FALSE, <<IniFilename(k)>>))
                  IN  /\ ini_file_path' = path
                      /\ written_file' = FileAt(WorkingDirectory, path)
             ELSE /\ ini_file_path' = NoPath
                  /\ written_file' = <<>>
    /\ lpc' = "prepared"
    /\ checked_file' = <<>>
    /\ opened_file' = <<>>
    /\ command' = <<>>
    /\ UNCHANGED <<base_output_dir, executables_cfg, current_run_output_dir,
                   executable_path, cwd_path>>
    /\ UNCHANGED <<runnerVars, sweepVars, writerVars, compilerVars>>

\* Lines 893-900 / 931-938 / 944-950 and 35-38 / 180-183 / 306-311: main
\* calls the runner of the stage, which builds its argument list.
CallRunner ==
    /\ lpc = "prepared"
    /\ LET exe == GetExecutable(ExecutableKey(stage), ExecutableDefault(stage))
       IN  /\ executable_path' = exe
           /\ command' = IF stage \in Sims THEN <<exe, PathText(ini_file_path)>>
                         ELSE <<exe, <<"-d", " ", "sim.ms">>,
                                <<"--source-list", " ", "None">>,
                                <<"-o", " ", "hyperdrive_solutions.fits">>>>
    /\ cwd_path' = current_run_output_dir
    /\ lpc' = "called"
    /\ UNCHANGED <<base_output_dir, executables_cfg, current_run_output_dir, stage,
                   ini_file_path, written_file, checked_file, opened_file>>
    /\ UNCHANGED <<runnerVars, sweepVars, writerVars, compilerVars>>

\* Lines 60-62 / 204: ini_file_path.exists(), asked by the process of main
\* in its own working directory; run_calibrate asks nothing.
CheckExists ==
    /\ lpc = "called"
    /\ checked_file' = IF stage \in Sims THEN FileAt(WorkingDirectory, ini_file_path)
                       ELSE <<>>
    /\ lpc' = "checked"
    /\ UNCHANGED <<base_output_dir, executables_cfg, current_run_output_dir, stage,
                   ini_file_path, written_file, executable_path, cwd_path, command,
                   opened_file>>
    /\ UNCHANGED <<runnerVars, sweepVars, writerVars, compilerVars>>

\* Lines 71-76 / 213-218 / 323-328: a dry run returns without a launch.
DryRunReturn ==
    /\ lpc = "checked"
    /\ dry_run
    /\ lpc' = "returned"
    /\ UNCHANGED <<base_output_dir, executables_cfg, current_run_output_dir, stage,
                   ini_file_path, written_file, executable_path, cwd_path, command,
                   checked_file, opened_file>>
    /\ UNCHANGED <<runnerVars, sweepVars, writerVars, compilerVars>>

\* Lines 80-86 / 221-227 / 331-337: subprocess.run(command, cwd=str(cwd_path)).
\* The program starts in cwd_path and opens the file its argument names
\* there.
StartProgram ==
    /\ lpc = "checked"
    /\ ~dry_run
    /\ opened_file' =
          IF stage \in Sims
          THEN FileAt(abspath(WorkingDirectory, cwd_path), ParsePath(command[2]))
          ELSE <<>>
    /\ lpc' = "launched"
    /\ UNCHANGED <<base_output_dir, executables_cfg, current_run_output_dir, stage,
                   ini_file_path, written_file, executable_path, cwd_path, command,
                   checked_file>>
    /\ UNCHANGED <<runnerVars, sweepVars, writerVars, compilerVars>>

\* The runner is over and main goes on to the next stage.
StageOver ==
    /\ lpc \in {"launched", "returned"}
    /\ lpc' = "dir"
    /\ UNCHANGED <<base_output_dir, executables_cfg, current_run_output_dir, stage,
                   ini_file_path, written_file, executable_path, cwd_path, command,
                   checked_file, opened_file>>
    /\ UNCHANGED <<runnerVars, sweepVars, writerVars, compilerVars>>

NextLaunch ==
    \/ MakeRunDir
    \/ PrepareStage
    \/ CallRunner
    \/ CheckExists
    \/ DryRunReturn
    \/ StartProgram
    \/ StageOver

SpecLaunch == InitLaunch /\ [][NextLaunch]_vars

\* ------------------------------------------------------------------ C23
\* C23: for every base output directory, the file the external program
\* opens for the config-file path of its command line, read in the run
\* directory it is started in, is the file main wrote and the runner found
\* to exist.
C23_ProgramReadsTheFileWritten ==
    (lpc = "launched" /\ stage \in Sims) =>
        /\ checked_file = written_file
        /\ opened_file = written_file

\* What holds: the runner checks the file main wrote, and with an absolute
\* base output directory the program opens it too.
ProgramReadsTheFileUnderAbsoluteBase ==
    /\ (lpc \in {"checked", "launched", "returned"} /\ stage \in Sims) =>
          checked_file = written_file
    /\ (lpc = "launched" /\ stage \in Sims /\ base_output_dir.abs) =>
          opened_file = written_file

\* ------------------------------------------------------------------ C29
\* the name of the executable of a stage
StageExecutableName(k) ==
    CASE k = "beam" -> "oskar_sim_beam_pattern"
      [] k = "interf" -> "oskar_sim_interferometer"
      [] k = "calib" -> "hyperdrive"

\* C29: the runner of each stage is called with the path the executables
\* section gives under the name of the stage's executable, and with that
\* name itself when the section gives none.
C29_ExecutableOverrideUsed ==
    (lpc \in {"called", "checked", "launched", "returned"}) =>
        executable_path =
            (IF StageExecutableName(stage) \in DOMAIN executables_cfg
             THEN executables_cfg[StageExecutableName(stage)]
             ELSE <<StageExecutableName(stage)>>)

\* What holds: the interferometer and calibration stages use their
\* override, and every stage without one uses the default name.
OverrideUsedExceptForBeam ==
    (lpc \in {"called", "checked", "launched", "returned"}) =>
        /\ (stage # "beam") => C29_ExecutableOverrideUsed
        /\ (StageExecutableName(stage) \notin DOMAIN executables_cfg
              /\ ExecutableKey(stage) \notin DOMAIN executables_cfg) =>
              executable_path = <<StageExecutableName(stage)>>

\* ------------------------------------------------------ C24, C25, C28
\* the value the keys of names lead to in a written-out tree
RECURSIVE ValueAtKeys(_, _)
ValueAtKeys(v, names) ==
    IF names = <<>> THEN v
    ELSE IF v.t # "dict" THEN Missing
    ELSE ValueAtKeys(Lookup(v.d, Head(names)), Tail(names))

TreesOfKind(k) == {i \in DOMAIN trees : trees[i].kind = k}

NamesOmitted ==
    /\ Lookup(global_output_config, "interf_ms_base_filename") = Missing
    /\ Lookup(global_output_config, "beam_root_path_base") = Missing

\* C24: when the output section omits the names, the interferometer tree's
\* interferometer/ms_filename is 'vis.ms' and the beam tree's
\* beam_pattern/root_path is 'beam_output'.
C24_DefaultOutputNames ==
    NamesOmitted =>
        /\ \A i \in TreesOfKind("interf") :
              ValueAtKeys(trees[i].held, <<"interferometer", "ms_filename">>) = Text("vis.ms")
        /\ \A i \in TreesOfKind("beam") :
              ValueAtKeys(trees[i].held, <<"beam_pattern", "root_path">>) = Text("beam_output")

\* What holds: the names of the output section are used when given, and
\* the compilers' own defaults otherwise.
OutputNamesFromOutputSection ==
    /\ \A i \in TreesOfKind("interf") :
          ValueAtKeys(trees[i].held, <<"interferometer", "ms_filename">>) =
              (IF Lookup(global_output_config, "interf_ms_base_filename") = Missing
               THEN Text("vis_default.ms")
               ELSE Lookup(global_output_config, "interf_ms_base_filename"))
    /\ \A i \in TreesOfKind("beam") :
          ValueAtKeys(trees[i].held, <<"beam_pattern", "root_path">>) =
              (IF Lookup(global_output_config, "beam_root_path_base") = Missing
               THEN Text("beam_output_default")
               ELSE Lookup(global_output_config, "beam_root_path_base"))

SharedSections == {"General", "simulator", "observation", "telescope"}

\* the fields the defaults give in the shared sections
SharedDefaultFields ==
    UNION {IF Lookup(defaults_at_load.d, name).t = "dict"
           THEN Leaves(Lookup(defaults_at_load.d, name).d, <<<<name>>>>)
           ELSE {} : name \in SharedSections}

\* the fields a compiler assigns by name
NamedFields(program) ==
    {Append(program[i].at, program[i].key) : i \in {j \in DOMAIN program : program[j].op = "set"}}

ProgramOf(k) == IF k = "beam" THEN BeamProgram ELSE InterfProgram
ModuleOf(k) == IF k = "beam" THEN "beam_pattern_module" ELSE "interferometer_module"

KeyNames(path) == [j \in DOMAIN path |-> path[j][1]]

Overridden(k, names) == \E f \in NamedFields(ProgramOf(k)) : IsPrefix(f, names)

Carried(i) ==
    \A leaf \in SharedDefaultFields :
        ~Overridden(trees[i].kind, KeyNames(leaf.path)) =>
            ValueAtKeys(trees[i].held, KeyNames(leaf.path)) = leaf.value

ModuleNamesShared(k) ==
    \E name \in SharedSections :
        ValueAtKeys(defaults_at_load, <<ModuleOf(k), name>>) # Missing

\* What holds: the fields are carried unless the module subtree has a
\* section named like a shared section.
DefaultFieldsCarriedWithoutSharedName ==
    \A i \in DOMAIN trees : ~ModuleNamesShared(trees[i].kind) => Carried(i)

\* Lines 306-311: the data set named after -d in the calibration command.
CalibrateDataSet ==
    IF Lookup(global_output_config, "interf_ms_base_filename") = Missing
    THEN Text("sim.ms")
    ELSE Lookup(global_output_config, "interf_ms_base_filename")

\* C28: the data set named in the calibration command is the ms_filename
\* of the interferometer tree compiled from the same output section,
\* whether or not that section names the file.
C28_CalibrationReadsTheVisibilities ==
    \A i \in TreesOfKind("interf") :
        ValueAtKeys(trees[i].held, <<"interferometer", "ms_filename">>) = CalibrateDataSet

\* What holds: the two agree when the output section names the file.
CalibrationReadsTheNamedVisibilities ==
    (Lookup(global_output_config, "interf_ms_base_filename") # Missing) =>
        C28_CalibrationReadsTheVisibilities

\* ------------------------------------------------------------------ C26
DryRunOnMissingInput == kind \in Sims /\ is_dry_run /\ ~ini_exists

C27_ExecutableNotFoundOnlyAfterLaunch ==
    Printed("error_executable_not_found") =>
        /\ OpOk("open")
        /\ OpOk("preamble")
        /\ launched = "FileNotFoundError"

\* What holds: the report is made for every FileNotFoundError raised in
\* the try statement, by the launch or by the opening of run.log.
ExecutableNotFoundOnFileNotFoundError ==
    Printed("error_executable_not_found") =>
        /\ exc = "FileNotFoundError"
        /\ launched = "FileNotFoundError" \/ OpFailed("open")

\* ------------------------------------------------------------------ C30
CalibratePreamble == {"time", "cwd", "cmd"}

\* C30: run_calibrate makes no existence check; it logs the preamble, in
\* dry-run mode returns success without launching, otherwise launches once
\* and returns success exactly when the exit status is zero, and always
\* appends the closing entry.
C30_CalibrateDiscipline ==
    (kind = "calib" /\ pc \in {"returned", "raised"}) =>
        /\ ~Printed("error_ini_not_found")
        /\ \A tag \in CalibratePreamble : InLog(tag)
        /\ is_dry_run => (result = "True" /\ launched = "none")
        /\ ~is_dry_run =>
              /\ launched # "none"
              /\ (result = "True") <=> (launched = "exit0")
        /\ InLog("concluded")

\* What holds when the calibration section is a mapping: no existence
\* check, nothing launched in a dry run, at most one launch otherwise,
\* success exactly when the log was opened and flushed and the run was a
\* dry run or exited with zero, and the closing append always attempted.
CalibrateDisciplineWhenConfigured ==
    (kind = "calib" /\ ~cfg_none /\ pc = "returned") =>
        /\ ~Printed("error_ini_not_found")
        /\ (OpOk("open") /\ OpOk("close")) => \A tag \in CalibratePreamble : InLog(tag)
        /\ is_dry_run => launched = "none"
        /\ (result = "True") <=>
              /\ OpOk("open")
              /\ OpOk("close")
              /\ (is_dry_run \/ launched = "exit0")
        /\ OpDone("final_append")
        /\ OpOk("final_append") => InLog("concluded")

\* ------------------------------------------------------------------ C31
ProperPrefixes(path) == {SubSeq(path, 1, n) : n \in 1..(Len(path) - 1)}
Prefixes(path) == {SubSeq(path, 1, n) : n \in 1..Len(path)}

\* the statements of a compiler that read a field of the defaults
DefaultsReads(k) ==
    {ProgramOf(k)[i] : i \in {j \in DOMAIN ProgramOf(k) :
                                /\ ProgramOf(k)[j].op = "set"
                                /\ ProgramOf(k)[j].src.from = "defaults"}}

\* the places where a compiler expects a section or subsection: in the
\* defaults on the way to a field it reads, in the tree on the way to a
\* field it writes (the tree's sections come from the defaults and from
\* the module subtree)
SectionsRead(k) == UNION {ProperPrefixes(stmt.src.path) : stmt \in DefaultsReads(k)}
SectionsWritten(k) ==
    UNION {Prefixes(ProgramOf(k)[i].at) :
              i \in {j \in DOMAIN ProgramOf(k) : ProgramOf(k)[j].op \in {"set", "setdefault"}}}

IsMappingOrMissing(v) == v.t \in {"dict", "missing"}

DefaultsAreMappings(k) ==
    /\ IsMappingOrMissing(ValueAtKeys(defaults_at_load, <<ModuleOf(k)>>))
    /\ \A p \in SectionsRead(k) : IsMappingOrMissing(ValueAtKeys(defaults_at_load, p))
    /\ \A p \in SectionsWritten(k) :
          /\ IsMappingOrMissing(ValueAtKeys(defaults_at_load, p))
          /\ IsMappingOrMissing(ValueAtKeys(defaults_at_load, <<ModuleOf(k)>> \o p))

PcComplete ==
    \A name \in {"ra_deg", "dec_deg", "start_time_utc"} :
        Lookup(current_pc_config, name) # Missing

\* the fields of the defaults a compiler reads and the defaults do not give
MissingLeaves(k) ==
    {stmt \in DefaultsReads(k) : ValueAtKeys(defaults_at_load, stmt.src.path) = Missing}

\* the flat keys of the section of a tree that holds the field of stmt
FlatKeysOfSection(i, stmt) ==
    FlatKeys(flatten_settings_for_configparser(
                 ValueAtKeys(trees[i].held, <<stmt.at[1]>>).d, <<>>))

\* the flat key of the field of stmt within its section
FlatKeyOf(stmt) == JoinPath([j \in 1..Len(stmt.at) |-> <<Append(stmt.at, stmt.key)[j + 1]>>])

LastCompiled == IF trees = <<>> THEN "none" ELSE trees[Len(trees)].kind

\* C31 as stated: when the sections of the defaults are mappings the
\* compilers do not raise, and every field the defaults do not give is the
\* absent marker in the compiled tree and gives no key to the flattened
\* section.
C31_MissingLeavesAreAbsent ==
    /\ (PcComplete /\ DefaultsAreMappings("beam") /\ DefaultsAreMappings("interf")) =>
          compile_exc = "none"
    /\ \A i \in DOMAIN trees : \A stmt \in MissingLeaves(trees[i].kind) :
          /\ ValueAtKeys(trees[i].held, Append(stmt.at, stmt.key)) = NoneV
          /\ FlatKeyOf(stmt) \notin FlatKeysOfSection(i, stmt)

\* C31 as amended: when the sections of the defaults are mappings the
\* compilers do not raise, and every field the defaults do not give takes
\* the fall-back value of the statement that reads it: the absent marker,
\* which gives no key to the flattened section, except for General/version
\* ("unknown"), element_pattern/enable_numerical (False) and
\* station_outputs/fits_image/amp (True).
C31_PermissiveDefaults ==
    /\ (PcComplete /\ DefaultsAreMappings("beam") /\ DefaultsAreMappings("interf")) =>
          compile_exc = "none"
    /\ \A i \in DOMAIN trees : \A stmt \in MissingLeaves(trees[i].kind) :
          /\ ValueAtKeys(trees[i].held, Append(stmt.at, stmt.key)) =
                (CASE Append(stmt.at, stmt.key) = <<"General", "version">> -> Text("unknown")
                   [] stmt.key = "enable_numerical" -> BoolV(FALSE)
                   [] stmt.key = "amp" -> BoolV(TRUE)
                   [] OTHER -> NoneV)
          /\ (stmt.key \notin {"version", "enable_numerical", "amp"}) =>
                FlatKeyOf(stmt) \notin FlatKeysOfSection(i, stmt)

C31_Witness ==
    /\ compile_exc = "none"
    /\ DefaultsAreMappings("beam") /\ DefaultsAreMappings("interf")
    /\ ValueAtKeys(defaults_at_load, <<"simulator">>) = Dict(<<>>)
    /\ ValueAtKeys(defaults_at_load, <<"telescope", "aperture_array">>) = Dict(<<>>)
    /\ \E i, j \in DOMAIN trees :
          /\ trees[i].kind = "beam"
          /\ trees[j].kind = "interf"
          /\ ValueAtKeys(trees[i].held, <<"simulator", "use_gpus">>) = NoneV
          /\ ValueAtKeys(trees[j].held, <<"observation", "length">>) = NoneV
          /\ <<"use_gpus">> \notin
                FlatKeys(flatten_settings_for_configparser(
                             ValueAtKeys(trees[i].held, <<"simulator">>).d, <<>>))

\* ------------------------------------------------------------------ C32
\* the leaves of the flattened section that are not None
ScalarLeaves == {leaf \in FlattenedLeaves : leaf.value.t # "none"}

\* C32: the flattener gives as many flat keys as its section has scalar
\* leaves that are not None: no two leaves share a flat key, also when a
\* key holds the separator "/".
C32_NoKeyCollision ==
    (flat_arg # 0) =>
        /\ Len(flat_dict) = Cardinality(ScalarLeaves)
        /\ Cardinality(FlatKeys(flat_dict)) = Cardinality(ScalarLeaves)

SeparatorInAKey ==
    \E leaf \in FlattenedLeaves : \E j \in DOMAIN leaf.path : "/" \in Range(leaf.path[j])

\* What holds: no two leaves share a flat key when no key holds "/".
NoKeyCollisionWithoutSeparator ==
    (flat_arg # 0 /\ ~SeparatorInAKey) =>
        /\ Len(flat_dict) = Cardinality(ScalarLeaves)
        /\ Cardinality(FlatKeys(flat_dict)) = Cardinality(ScalarLeaves)
====
